---- MODULE Spec2Model ----
(***************************************************************************)
(* Minaret (custom_components/azan): the prayer-schedule coordinator.      *)
(*                                                                         *)
(* Text is modelled as sequences of one-character strings, so that the     *)
(* string operations of the source (strip, split, lower, int) are computed *)
(* character by character.  Optional values (None or a value) are          *)
(* sequences of length 0 or 1.  A Python dict is a sequence of <<key,      *)
(* value>> pairs in insertion order with unique keys.  A point in time is  *)
(* a number of minutes: day * 1440 + hour * 60 + minute.                   *)
(***************************************************************************)
EXTENDS Integers, Sequences, FiniteSets, TLC

VARIABLES
    config,               \* AzanCoordinator.config
    state,                \* "idle" | "fetching": is _async_update_data awaiting its adapter
    data,                 \* DataUpdateCoordinator.data: 0 (None) or an index of snaps
    snaps,                \* the PrayerData objects alive: the superseded one, the current one
    sets,                 \* the played_today set objects alive
    last_date,            \* AzanCoordinator._last_date
    last_update_success,  \* DataUpdateCoordinator.last_update_success
    last_exception,       \* class of DataUpdateCoordinator.last_exception
    day,                  \* the wall clock's calendar date
    fetches,              \* adapter calls in flight
    coalesced,            \* history: a trigger arrived during the last fetch
    adapter_raised,       \* history: the adapter call of the last refresh raised
    played_at_start,      \* history: the played set when the last fetch started
    marked_in_flight,     \* history: names marked played since the fetch started
    nth,                  \* normalizer study: the header texts of the portal's table
    ntd,                  \* normalizer study: the cell texts of the portal's table
    nraw,                 \* normalizer study: the raw mapping the adapter builds from them
    nconfig,              \* normalizer study: the configuration
    nramadan,             \* normalizer study: is_ramadan
    nout,                 \* normalizer study: result of _normalize_times
    vdata,                \* observers: coordinator.data as the sensors read it (None or a snapshot)
    vnow,                 \* observers: the wall reading of dt_util.now(), in seconds
    vpc,                  \* observers: position of the sensor's property call
    vnext_enabled,        \* observers: result of NextPrayerSensor._get_next_prayer
    vnext_any,            \* observers: result of AzanCountdownSensor._get_next_prayer
    vcountdown,           \* observers: the values the countdown properties return
    vstatus,              \* observers: the store read and AzanStatusSensor.native_value
    vtz,                  \* observers: the UTC offset of dt_util.now(), in seconds
    vramadan,             \* observers: the snapshot read and what RamadanSensor returns
    vsensors,             \* observers: what the sensors return on one reading of all of them
    fin,                  \* adapter study: the upstream answer of the refresh in flight
    shutdown,             \* unload: "no", "begun", "stopped" or "discarded"
    flow                  \* wizards: the flow handler alive and the result it last returned

vars == <<config, state, data, snaps, sets, last_date, last_update_success,
          last_exception, day, fetches, coalesced, adapter_raised,
          played_at_start, marked_in_flight, nth, ntd, nraw, nconfig, nramadan, nout,
          vdata, vnow, vpc, vnext_enabled, vnext_any, vcountdown, vstatus,
          vtz, vramadan, vsensors,
                   fin, shutdown, flow>>

schedVars == <<config, state, data, snaps, sets, last_date, last_update_success,
               last_exception, day, fetches, coalesced, adapter_raised,
               played_at_start, marked_in_flight>>

normVars == <<nth, ntd, nraw, nconfig, nramadan, nout>>

viewVars == <<vdata, vnow, vpc, vnext_enabled, vnext_any, vcountdown, vstatus,
              vtz, vramadan, vsensors>>

(***************************************************************************)
(* Bounds of the model.                                                    *)
(***************************************************************************)
MaxDay == 1
MaxRaw == 2

(***************************************************************************)
(* const.py                                                                *)
(***************************************************************************)
Fajr == <<"F", "a", "j", "r">>
Sunrise == <<"S", "u", "n", "r", "i", "s", "e">>
Dhuhr == <<"D", "h", "u", "h", "r">>
Asr == <<"A", "s", "r">>
Maghrib == <<"M", "a", "g", "h", "r", "i", "b">>
Isha == <<"I", "s", "h", "a">>
Suhoor == <<"S", "u", "h", "o", "o", "r">>

PRAYER_ORDER == <<Fajr, Sunrise, Dhuhr, Asr, Maghrib, Isha>>

NAME_MAP ==
    << <<(<<"f", "a", "j", "e", "r">>), Fajr>>,
       <<(<<"f", "a", "j", "r">>), Fajr>>,
       <<(<<"s", "u", "n", "r", "i", "s", "e">>), Sunrise>>,
       <<(<<"d", "h", "u", "h", "r">>), Dhuhr>>,
       <<(<<"z", "u", "h", "r">>), Dhuhr>>,
       <<(<<"a", "s", "r">>), Asr>>,
       <<(<<"m", "a", "g", "h", "r", "i", "b">>), Maghrib>>,
       <<(<<"i", "s", "h", "a">>), Isha>> >>

SOURCE_QATAR_MOI == "qatar_moi"
SOURCE_ALADHAN == "aladhan"
DEFAULT_SUHOOR_OFFSET == 60

(***************************************************************************)
(* Python built-ins used by the source.                                    *)
(***************************************************************************)
None == <<>>
Some(v) == <<v>>

\* dict.get(key, default) on a configuration (a function over its keys)
Get(d, key, default) == IF key \in DOMAIN d THEN d[key] ELSE default

\* dict.get(key, default) on a dict kept as a sequence of pairs
PairsGet(d, key, default) ==
    IF \E i \in 1..Len(d) : d[i][1] = key
    THEN d[CHOOSE i \in 1..Len(d) : d[i][1] = key][2]
    ELSE default

\* d[key] = value: an existing key keeps its place, a new key goes last
DictSet(d, key, value) ==
    IF \E i \in 1..Len(d) : d[i][1] = key
    THEN [i \in 1..Len(d) |-> IF d[i][1] = key THEN <<key, value>> ELSE d[i]]
    ELSE Append(d, <<key, value>>)

\* x in seq
InSeq(x, seq) == \E i \in 1..Len(seq) : seq[i] = x

\* seq.index(x), 0-based
RECURSIVE IndexFrom(_, _, _)
IndexFrom(x, seq, i) == IF seq[i] = x THEN i - 1 ELSE IndexFrom(x, seq, i + 1)

IndexOf(x, seq) == IndexFrom(x, seq, 1)

Max(a, b) == IF a >= b THEN a ELSE b

\* position of the first c in s from i on, or Len(s) + 1
RECURSIVE Scan(_, _, _)
Scan(s, c, i) == IF i > Len(s) \/ s[i] = c THEN i ELSE Scan(s, c, i + 1)

FirstPos(s, c) == Scan(s, c, 1)

\* str.strip()
RECURSIVE Strip(_)
Strip(s) ==
    IF s = <<>> THEN s
    ELSE IF s[1] = " " THEN Strip(Tail(s))
    ELSE IF s[Len(s)] = " " THEN Strip(SubSeq(s, 1, Len(s) - 1))
    ELSE s

\* s.split(c)[0]
SplitFirst(s, c) == SubSeq(s, 1, FirstPos(s, c) - 1)

\* s.split(c)
RECURSIVE Split(_, _)
Split(s, c) ==
    IF FirstPos(s, c) > Len(s) THEN <<s>>
    ELSE <<SplitFirst(s, c)>> \o Split(SubSeq(s, FirstPos(s, c) + 1, Len(s)), c)

\* one character of str.lower()
LowerChar(c) ==
    CASE c = "A" -> "a" [] c = "B" -> "b" [] c = "C" -> "c" [] c = "D" -> "d"
      [] c = "E" -> "e" [] c = "F" -> "f" [] c = "G" -> "g" [] c = "H" -> "h"
      [] c = "I" -> "i" [] c = "J" -> "j" [] c = "K" -> "k" [] c = "L" -> "l"
      [] c = "M" -> "m" [] c = "N" -> "n" [] c = "O" -> "o" [] c = "P" -> "p"
      [] c = "Q" -> "q" [] c = "R" -> "r" [] c = "S" -> "s" [] c = "T" -> "t"
      [] c = "U" -> "u" [] c = "V" -> "v" [] c = "W" -> "w" [] c = "X" -> "x"
      [] c = "Y" -> "y" [] c = "Z" -> "z"
      [] OTHER -> c

\* str.lower()
Lower(s) == [i \in 1..Len(s) |-> LowerChar(s[i])]

Digits == <<"0", "1", "2", "3", "4", "5", "6", "7", "8", "9">>

IsDigit(c) == c \in {"0", "1", "2", "3", "4", "5", "6", "7", "8", "9"}

DigitValue(c) ==
    CASE c = "0" -> 0 [] c = "1" -> 1 [] c = "2" -> 2 [] c = "3" -> 3 [] c = "4" -> 4
      [] c = "5" -> 5 [] c = "6" -> 6 [] c = "7" -> 7 [] c = "8" -> 8 [] c = "9" -> 9

RECURSIVE DigitsValue(_)
DigitsValue(s) ==
    IF s = <<>> THEN 0
    ELSE DigitsValue(SubSeq(s, 1, Len(s) - 1)) * 10 + DigitValue(s[Len(s)])

\* int(s): None stands for ValueError
ParseInt(s) ==
    LET t == Strip(s)
        signed == t # <<>> /\ t[1] \in {"+", "-"}
        body == IF signed THEN SubSeq(t, 2, Len(t)) ELSE t
    IN IF body = <<>> \/ \E i \in 1..Len(body) : ~IsDigit(body[i])
       THEN None
       ELSE Some(IF signed /\ t[1] = "-" THEN 0 - DigitsValue(body) ELSE DigitsValue(body))

\* f"{n:02d}" for n >= 0
Fmt02(n) ==
    IF n < 10 THEN <<"0", Digits[n + 1]>>
    ELSE IF n < 100 THEN <<Digits[(n \div 10) + 1], Digits[(n % 10) + 1]>>
    ELSE <<Digits[(n \div 100) + 1], Digits[((n \div 10) % 10) + 1], Digits[(n % 10) + 1]>>

\* f"{h:02d}:{m:02d}"
TimeStr(h, m) == Fmt02(h) \o <<":">> \o Fmt02(m)

\* sorted(items, key): stable, keys are 0..5 and 99
SortKey(x) == IF InSeq(x[1], PRAYER_ORDER) THEN IndexOf(x[1], PRAYER_ORDER) ELSE 99

RECURSIVE SortedFrom(_, _)
SortedFrom(items, k) ==
    IF k > 5 THEN SelectSeq(items, LAMBDA x : SortKey(x) = 99)
    ELSE SelectSeq(items, LAMBDA x : SortKey(x) = k) \o SortedFrom(items, k + 1)

\* mutant of Sorted: the entries stay in the order of the raw mapping
SortedAsGiven(items) == items

Sorted(items) == SortedFrom(items, 0)

\* list.insert(i, x), i 0-based
Insert(seq, i, x) == SubSeq(seq, 1, i) \o <<x>> \o SubSeq(seq, i + 1, Len(seq))

(***************************************************************************)
(* AzanCoordinator._fetch_qatar_moi, after the HTTP exchange: resp.status  *)
(* is "ok" or "http_error" (the request or raise_for_status raises);      *)
(* resp.th and resp.td are the inner texts the two regular expressions     *)
(* find.  The result is [ok, times]; ok is FALSE when the adapter raises.  *)
(***************************************************************************)
\* headers = [strip(m) for m in th if strip(m)]
Headers(th) == SelectSeq([i \in 1..Len(th) |-> Strip(th[i])], LAMBDA h : h # <<>>)

\* cells = [m.strip() for m in td]
Cells(td) == [i \in 1..Len(td) |-> Strip(td[i])]

\* key = NAME_MAP.get(header.lower(), header)
HeaderKey(header) == PairsGet(NAME_MAP, Lower(header), header)

\* mutant of StoreTime: the pairs are kept in a list, a repeated key is added again
StoreTimeAppend(times, key, cell) == Append(times, <<key, cell>>)

\* times[key] = cells[i]
StoreTime(times, key, cell) == DictSet(times, key, cell)

RECURSIVE PairTimes(_, _, _, _)
PairTimes(headers, cells, i, times) ==
    IF i > Len(headers) THEN times
    ELSE PairTimes(headers, cells, i + 1,
                   IF i <= Len(cells)
                   THEN StoreTime(times, HeaderKey(headers[i]), cells[i])
                   ELSE times)

\* mutant of FetchQatarMoi: an empty mapping is returned as it is
FetchQatarMoiEmpty(resp) ==
    IF resp.status # "ok" THEN [ok |-> FALSE, times |-> <<>>]
    ELSE [ok |-> TRUE, times |-> PairTimes(Headers(resp.th), Cells(resp.td), 1, <<>>)]

FetchQatarMoi(resp) ==
    IF resp.status # "ok" THEN [ok |-> FALSE, times |-> <<>>]
    ELSE LET times == PairTimes(Headers(resp.th), Cells(resp.td), 1, <<>>)
         IN IF times = <<>> THEN [ok |-> FALSE, times |-> <<>>]
            ELSE [ok |-> TRUE, times |-> times]

(***************************************************************************)
(* AzanCoordinator._normalize_times.  The result is [ok, prayers]; ok is   *)
(* FALSE when int() or datetime.replace() raises ValueError.               *)
(***************************************************************************)
\* time_str.strip().split(" ")[0].split("(")[0].strip()
TimeClean(time_str) == Strip(SplitFirst(SplitFirst(Strip(time_str), " "), "("))

\* mutant of AdjustHour: every hour before noon is taken as an afternoon hour
AdjustHourNoon(name, hour) ==
    IF name \in {Asr, Maghrib, Isha} /\ hour < 12 THEN hour + 12 ELSE hour

\* Qatar MOI uses 12h format: afternoon prayers need +12
AdjustHour(name, hour) ==
    IF name \in {Asr, Maghrib, Isha} /\ hour < 10 THEN hour + 12 ELSE hour

\* mutant of EnabledMap: Sunrise defaults to enabled like the prayers
EnabledMapSunriseOn(cfg) ==
    << <<Fajr, Get(cfg, "prayer_fajr", TRUE)>>,
       <<Sunrise, Get(cfg, "prayer_sunrise", TRUE)>>,
       <<Dhuhr, Get(cfg, "prayer_dhuhr", TRUE)>>,
       <<Asr, Get(cfg, "prayer_asr", TRUE)>>,
       <<Maghrib, Get(cfg, "prayer_maghrib", TRUE)>>,
       <<Isha, Get(cfg, "prayer_isha", TRUE)>> >>

EnabledMap(cfg) ==
    << <<Fajr, Get(cfg, "prayer_fajr", TRUE)>>,
       <<Sunrise, Get(cfg, "prayer_sunrise", FALSE)>>,
       <<Dhuhr, Get(cfg, "prayer_dhuhr", TRUE)>>,
       <<Asr, Get(cfg, "prayer_asr", TRUE)>>,
       <<Maghrib, Get(cfg, "prayer_maghrib", TRUE)>>,
       <<Isha, Get(cfg, "prayer_isha", TRUE)>> >>

\* mutant of IsCanonical: Suhoor is accepted as a raw name
IsCanonicalOrSuhoor(name) == InSeq(name, PRAYER_ORDER) \/ name = Suhoor

\* line 227: name in PRAYER_ORDER
IsCanonical(name) == InSeq(name, PRAYER_ORDER)

\* the body of the loop over the sorted entries, from entry i on
RECURSIVE NormalizeLoop(_, _, _, _, _, _)
NormalizeLoop(entries, i, prayers, fajr_time, cfg, nowDay) ==
    IF i > Len(entries) THEN [ok |-> TRUE, prayers |-> prayers, fajr_time |-> fajr_time]
    ELSE LET name == entries[i][1]
             parts == Split(TimeClean(entries[i][2]), ":")
         IN IF ~IsCanonical(name)
            THEN NormalizeLoop(entries, i + 1, prayers, fajr_time, cfg, nowDay)
            ELSE IF Len(parts) < 2
            THEN NormalizeLoop(entries, i + 1, prayers, fajr_time, cfg, nowDay)
            ELSE IF ParseInt(parts[1]) = None \/ ParseInt(parts[2]) = None
            THEN [ok |-> FALSE, prayers |-> <<>>, fajr_time |-> None]
            ELSE LET hour == AdjustHour(name, ParseInt(parts[1])[1])
                     minute == ParseInt(parts[2])[1]
                     prayer_time == nowDay * 1440 + hour * 60 + minute
                 IN IF hour \notin 0..23 \/ minute \notin 0..59
                    THEN [ok |-> FALSE, prayers |-> <<>>, fajr_time |-> None]
                    ELSE NormalizeLoop(entries, i + 1,
                             Append(prayers,
                                    [name |-> name,
                                     time |-> prayer_time,
                                     time_str |-> TimeStr(hour, minute),
                                     enabled |-> PairsGet(EnabledMap(cfg), name, FALSE)]),
                             IF name = Fajr THEN Some(prayer_time) ELSE fajr_time,
                             cfg, nowDay)

\* mutant of SuhoorDue: the Ramadan-only setting is not consulted
SuhoorDueAnyMonth(fajr_time, is_ramadan, cfg) ==
    Get(cfg, "suhoor_enabled", FALSE) /\ fajr_time # None

\* lines 260-263: suhoor_enabled and fajr_time, then not ramadan_only or is_ramadan
SuhoorDue(fajr_time, is_ramadan, cfg) ==
    /\ Get(cfg, "suhoor_enabled", FALSE)
    /\ fajr_time # None
    /\ (~Get(cfg, "suhoor_ramadan_only", TRUE) \/ is_ramadan)

\* mutant of SuhoorTime: the subtraction wraps within the day of Fajr
SuhoorTimeWrapped(fajr_time, cfg) ==
    (fajr_time \div 1440) * 1440
      + (((fajr_time % 1440)
            - Get(cfg, "suhoor_offset_minutes", DEFAULT_SUHOOR_OFFSET)) % 1440)

\* lines 264-265: fajr_time - timedelta(minutes=offset)
SuhoorTime(fajr_time, cfg) ==
    fajr_time - Get(cfg, "suhoor_offset_minutes", DEFAULT_SUHOOR_OFFSET)

\* mutant of SuhoorEntry: Suhoor follows the toggle of Fajr
SuhoorEntryToggled(suhoor_time, cfg) ==
    [name |-> Suhoor,
     time |-> suhoor_time,
     time_str |-> TimeStr((suhoor_time % 1440) \div 60, suhoor_time % 60),
     enabled |-> Get(cfg, "prayer_fajr", TRUE)]

\* lines 266-271: suhoor_entry
SuhoorEntry(suhoor_time, cfg) ==
    [name |-> Suhoor,
     time |-> suhoor_time,
     time_str |-> TimeStr((suhoor_time % 1440) \div 60, suhoor_time % 60),
     enabled |-> TRUE]

\* lines 273-275: next((i for i, p in enumerate(prayers) if p["name"] == "Fajr"), 0)
FajrIdx(prayers) ==
    IF \E i \in 1..Len(prayers) : prayers[i].name = Fajr
    THEN (CHOOSE i \in 1..Len(prayers) :
             /\ prayers[i].name = Fajr
             /\ \A j \in 1..(i-1) : prayers[j].name # Fajr) - 1
    ELSE 0

\* Inject Suhoor before Fajr if enabled
InjectSuhoor(prayers, fajr_time, is_ramadan, cfg) ==
    IF SuhoorDue(fajr_time, is_ramadan, cfg)
    THEN Insert(prayers, FajrIdx(prayers),
                SuhoorEntry(SuhoorTime(fajr_time[1], cfg), cfg))
    ELSE prayers

NormalizeTimes(raw, is_ramadan, cfg, nowDay) ==
    LET r == NormalizeLoop(Sorted(raw), 1, <<>>, None, cfg, nowDay)
    IN IF ~r.ok THEN [ok |-> FALSE, prayers |-> <<>>]
       ELSE [ok |-> TRUE, prayers |-> InjectSuhoor(r.prayers, r.fajr_time, is_ramadan, cfg)]

(***************************************************************************)
(* AzanCoordinator._fetch_aladhan, after the HTTP exchange.  resp.timings  *)
(* is data["data"]["timings"] (a dict); resp.hijri holds, each as an       *)
(* optional text, data["data"]["date"]["hijri"]["month"]["number"],        *)
(* ["day"] and ["month"]["en"].  The result is [ok, times, hijri_info].    *)
(***************************************************************************)
HasKey(d, key) == \E i \in 1..Len(d) : d[i][1] = key

NoHijri == [month |-> None, day |-> None, month_name |-> None]

\* the try block: the first missing key or failed int() ends it
HijriInfo(h) ==
    IF h.number = None \/ ParseInt(h.number[1]) = None THEN NoHijri
    ELSE IF h.day = None \/ ParseInt(h.day[1]) = None
    THEN [NoHijri EXCEPT !.month = ParseInt(h.number[1])]
    ELSE [month |-> ParseInt(h.number[1]), day |-> ParseInt(h.day[1]), month_name |-> h.en]

FetchAladhan(resp) ==
    IF resp.status # "ok" THEN [ok |-> FALSE, times |-> <<>>, hijri_info |-> NoHijri]
    ELSE IF \E i \in 1..Len(PRAYER_ORDER) : ~HasKey(resp.timings, PRAYER_ORDER[i])
    THEN [ok |-> FALSE, times |-> <<>>, hijri_info |-> NoHijri]
    ELSE [ok |-> TRUE,
          times |-> [i \in 1..Len(PRAYER_ORDER) |->
                        <<PRAYER_ORDER[i], PairsGet(resp.timings, PRAYER_ORDER[i], <<>>)>>],
          hijri_info |-> HijriInfo(resp.hijri)]

(***************************************************************************)
(* PrayerData.__init__: played_today is a reference to a set object.       *)
(***************************************************************************)
\* mutant of IsRamadan: every month that is set counts as Ramadan
IsRamadanSet(hijri_month) == hijri_month # None

\* line 50: (hijri_month == 9) if hijri_month else False
IsRamadan(hijri_month) ==
    IF hijri_month # None /\ hijri_month[1] # 0 THEN hijri_month[1] = 9 ELSE FALSE

PrayerData(prayers, date, hijri, played_ref) ==
    [prayers |-> prayers,
     date |-> date,
     played_today |-> played_ref,
     hijri_month |-> hijri.month,
     hijri_day |-> hijri.day,
     hijri_month_name |-> hijri.month_name,
     is_ramadan |-> IsRamadan(hijri.month)]

(***************************************************************************)
(* The inputs the model draws: upstream answers, configurations, marks.    *)
(***************************************************************************)
PortalFull ==
    [status |-> "ok",
     th |-> <<<<"F", "a", "j", "e", "r">>, <<" ", "S", "u", "n", "r", "i", "s", "e", " ">>, <<"Z", "u", "h", "r">>,
              <<"A", "s", "r">>, <<"M", "a", "g", "h", "r", "i", "b">>, <<"I", "s", "h", "a">>>>,
     td |-> <<<<"4", ":", "3", "0">>, <<"5", ":", "4", "5">>, <<"1", "1", ":", "4", "0">>,
              <<" ", "3", ":", "0", "5", " ">>, <<"5", ":", "5", "0">>, <<"7", ":", "2", "0">>>>]

\* two spellings of one name, a header that is no prayer, a cell too few
PortalTwice ==
    [status |-> "ok",
     th |-> <<<<"F", "a", "j", "e", "r">>, <<"D", "a", "t", "e">>, <<"F", "A", "J", "R">>, <<"I", "s", "h", "a">>>>,
     td |-> <<<<"4", ":", "3", "0">>, <<"1", "/", "9">>, <<"4", ":", "3", "5">>>>]

PortalNoPrayer == [status |-> "ok", th |-> <<<<"D", "a", "t", "e">>>>, td |-> <<<<"1", "/", "9">>>>]

PortalBadCell == [status |-> "ok", th |-> <<<<"F", "a", "j", "r">>>>, td |-> <<<<"4", ":", "x">>>>]

PortalEmpty == [status |-> "ok", th |-> <<<<"F", "a", "j", "r">>>>, td |-> <<>>]

PortalResponses ==
    {PortalFull, PortalTwice, PortalNoPrayer, PortalBadCell, PortalEmpty,
     [status |-> "http_error", th |-> <<>>, td |-> <<>>]}

Conversions ==
    {None, Some([month |-> Some(9), day |-> Some(1), month_name |-> Some("Ramadan")])}

\* the answers of hijri_converter, a month other than Ramadan among them
FetchConversions ==
    Conversions
      \cup {Some([month |-> Some(10), day |-> Some(1), month_name |-> Some("Shawwal")])}

AladhanTimings ==
    << <<Fajr, <<"0", "4", ":", "1", "2">>>>, <<Sunrise, <<"0", "5", ":", "3", "1">>>>, <<Dhuhr, <<"1", "1", ":", "4", "0">>>>,
       <<Asr, <<"1", "5", ":", "0", "5">>>>, <<Maghrib, <<"1", "7", ":", "5", "0">>>>, <<Isha, <<"1", "9", ":", "2", "0">>>> >>

AladhanResponses ==
    {[status |-> "ok", timings |-> AladhanTimings,
      hijri |-> [number |-> Some(<<"9">>), day |-> Some(<<"1">>), en |-> Some("Ramadan")]],
     [status |-> "ok", timings |-> AladhanTimings,
      hijri |-> [number |-> Some(<<"9">>), day |-> None, en |-> None]],
     [status |-> "ok", timings |-> AladhanTimings,
      hijri |-> [number |-> None, day |-> None, en |-> None]],
     [status |-> "ok", timings |-> AladhanTimings,
      hijri |-> [number |-> Some(<<"x">>), day |-> Some(<<"1">>), en |-> Some("Ramadan")]],
     [status |-> "ok", timings |-> SubSeq(AladhanTimings, 2, 6),
      hijri |-> [number |-> None, day |-> None, en |-> None]],
     [status |-> "http_error", timings |-> <<>>,
      hijri |-> [number |-> None, day |-> None, en |-> None]]}

SourceOf(cfg) == Get(cfg, "prayer_source", SOURCE_QATAR_MOI)

ResponsesOf(cfg) ==
    IF SourceOf(cfg) = SOURCE_QATAR_MOI THEN PortalResponses ELSE AladhanResponses

SchedConfigs ==
    {[suhoor_enabled |-> TRUE],
     [prayer_source |-> SOURCE_ALADHAN, suhoor_enabled |-> TRUE, suhoor_ramadan_only |-> FALSE]}

\* the names the playback subsystem marks as played
MarkNames == {Fajr, Isha}

(***************************************************************************)
(* AzanCoordinator._async_update_data from the adapter's answer on.        *)
(* conv is the answer of hijri_converter (None: it is missing or raises);  *)
(* today and nowDay are the two reads of the clock (lines 104 and 203).    *)
(***************************************************************************)
\* lines 83-102: the adapter's answer and the Hijri date
Fetched(cfg, resp, conv) ==
    IF SourceOf(cfg) = SOURCE_QATAR_MOI
    THEN LET f == FetchQatarMoi(resp)
         IN [ok |-> f.ok, raw |-> f.times,
             hijri |-> IF conv = None THEN NoHijri ELSE conv[1]]
    ELSE LET f == FetchAladhan(resp)
         IN [ok |-> f.ok, raw |-> f.times, hijri |-> f.hijri_info]

\* line 105: is_ramadan = (hijri_month == 9) if hijri_month else False
IsRamadanLocal(hijri_month) ==
    IF hijri_month # None /\ hijri_month[1] # 0 THEN hijri_month[1] = 9 ELSE FALSE

\* lines 105-106: is_ramadan and the call of _normalize_times on the answer f
Normalize(f, cfg, nowDay) ==
    NormalizeTimes(f.raw, IsRamadanLocal(f.hijri.month), cfg, nowDay)

\* what lines 83-106 raise, or the prayers and the Hijri date they yield:
\* a failed adapter call is re-raised as UpdateFailed (lines 101-102), a
\* ValueError of _normalize_times (line 106, outside the try) propagates
Outcome(f, n) ==
    IF ~f.ok THEN [raised |-> "UpdateFailed", prayers |-> <<>>, hijri |-> NoHijri]
    ELSE IF ~n.ok THEN [raised |-> "ValueError", prayers |-> <<>>, hijri |-> NoHijri]
    ELSE [raised |-> "none", prayers |-> n.prayers, hijri |-> f.hijri]

\* lines 83-106
Prepared(cfg, resp, conv, nowDay) ==
    Outcome(Fetched(cfg, resp, conv), Normalize(Fetched(cfg, resp, conv), cfg, nowDay))

\* Prepared, tabulated over the inputs the model draws
PreparedTable ==
    [cfg \in SchedConfigs |->
        [resp \in ResponsesOf(cfg) |->
            [conv \in FetchConversions |->
                [nowDay \in 0..MaxDay |-> Prepared(cfg, resp, conv, nowDay)]]]]

\* if self.data and self.data.date == today
SameDay(today) == data # 0 /\ snaps[data].date = today

\* mutant of Reconcile: lines 116-117 are missing
ReconcileFresh(today) == [ref |-> Len(sets) + 1, sets |-> Append(sets, {})]

\* mutant of Reconcile: the dates are not compared
ReconcileAlways(today) ==
    [ref |-> IF data # 0 THEN snaps[data].played_today ELSE Len(sets) + 1,
     sets |-> Append(sets, {})]

\* mutant of Reconcile: the played set is the one read before the await
ReconcileStale(today) ==
    [ref |-> Len(sets) + 1,
     sets |-> Append(sets, IF SameDay(today) THEN played_at_start ELSE {})]

\* mutant of Reconcile: the comparison of the dates is inverted
ReconcileInverted(today) ==
    [ref |-> IF data # 0 /\ snaps[data].date # today
             THEN snaps[data].played_today ELSE Len(sets) + 1,
     sets |-> Append(sets, {})]

\* the set object data.played_today refers to once line 117 has run, and
\* the heap of set objects: PrayerData.__init__ always allocates a new one
Reconcile(today) ==
    [ref |-> IF SameDay(today) THEN snaps[data].played_today ELSE Len(sets) + 1,
     sets |-> Append(sets, {})]

\* self.data = data: the snapshot before the superseded one, and every set
\* object no snapshot alive refers to, are gone; references are renumbered
Install(snap, heap) ==
    LET kept == IF data = 0 THEN <<snap>> ELSE <<snaps[data], snap>>
        refs == IF Len(kept) = 2 /\ kept[2].played_today # kept[1].played_today
                THEN <<kept[1].played_today, kept[2].played_today>>
                ELSE <<kept[1].played_today>>
    IN [snaps |-> [i \in 1..Len(kept) |->
                      [kept[i] EXCEPT !.played_today = IF @ = refs[1] THEN 1 ELSE 2]],
        sets |-> [i \in 1..Len(refs) |-> heap[refs[i]]]]

\* lines 104-126 on the outcome p of lines 83-106: the exception, or the
\* snapshot returned and the heap of set objects
Build(p, today) ==
    IF p.raised # "none" THEN [raised |-> p.raised]
    ELSE [raised |-> "none",
          snap |-> PrayerData(p.prayers, today, p.hijri, Reconcile(today).ref),
          sets |-> Reconcile(today).sets]

\* mutant of UpdateData: a failed fetch is swallowed and yields an empty schedule
UpdateDataSwallow(resp, conv, today, nowDay) ==
    Build([PreparedTable[config][resp][conv][nowDay] EXCEPT !.raised = "none"], today)

UpdateData(resp, conv, today, nowDay) ==
    Build(PreparedTable[config][resp][conv][nowDay], today)

(***************************************************************************)
(* The refresh scheduler (DataUpdateCoordinator and the refresh_times      *)
(* service) and the mark-played command.                                   *)
(***************************************************************************)
Played(i) == sets[snaps[i].played_today]

\* no wizard has been opened
NoFlow == [kind |-> "none", step_id |-> "", type |-> "none", errors |-> <<>>,
           data |-> <<>>, entry |-> <<>>, shown |-> {}, user_input |-> <<>>]

\* no sensor has been added
ViewIdle ==
    /\ vdata = None
    /\ vnow = 0
    /\ vpc = "off"
    /\ vnext_enabled = None
    /\ vnext_any = None
    /\ vcountdown = None
    /\ vstatus = None
    /\ vtz = 0
    /\ vramadan = None
    /\ vsensors = None
    /\ fin = [phase |-> "none", resp |-> <<>>, conv |-> None]
    /\ shutdown = "no"
    /\ flow = NoFlow

CurrentPlayed == IF data = 0 THEN {} ELSE Played(data)

Init ==
    /\ config \in SchedConfigs
    /\ state = "idle"
    /\ data = 0
    /\ snaps = <<>>
    /\ sets = <<>>
    /\ last_date = None
    /\ last_update_success = TRUE
    /\ last_exception = "none"
    /\ day = 0
    /\ fetches = 0
    /\ coalesced = FALSE
    /\ adapter_raised = FALSE
    /\ played_at_start = {}
    /\ marked_in_flight = {}
    /\ nth = <<>>
    /\ ntd = <<>>
    /\ nraw = <<>>
    /\ nconfig = [suhoor_enabled |-> FALSE]
    /\ nramadan = FALSE
    /\ nout = [done |-> FALSE, ok |-> FALSE, prayers |-> <<>>]
    /\ ViewIdle

\* mutant of Trigger: every trigger starts an adapter call
TriggerConcurrent ==
    /\ state' = "fetching"
    /\ fetches' = fetches + 1
    /\ coalesced' = FALSE
    /\ played_at_start' = CurrentPlayed
    /\ marked_in_flight' = {}

\* a refresh trigger: starts the one fetch, or is coalesced into it
Trigger ==
    IF state = "idle"
    THEN /\ state' = "fetching"
         /\ fetches' = fetches + 1
         /\ coalesced' = FALSE
         /\ played_at_start' = CurrentPlayed
         /\ marked_in_flight' = {}
    ELSE /\ coalesced' = TRUE
         /\ UNCHANGED <<state, fetches, played_at_start, marked_in_flight>>

\* the periodic timer (update_interval = 6 hours) fires
PeriodicRefresh ==
    /\ Trigger
    /\ UNCHANGED <<config, data, snaps, sets, last_date, last_update_success,
                   last_exception, day, adapter_raised, normVars, viewVars, fin, shutdown, flow>>

\* AzanRefreshButton.async_press: the refresh_times service
RefreshCommand ==
    /\ Trigger
    /\ UNCHANGED <<config, data, snaps, sets, last_date, last_update_success,
                   last_exception, day, adapter_raised, normVars, viewVars, fin, shutdown, flow>>

\* the end of a refresh with result r of _async_update_data: the returned
\* snapshot becomes self.data, or the exception is recorded and data stays
Store(r, today) ==
    IF r.raised = "none"
    THEN /\ snaps' = Install(r.snap, r.sets).snaps
         /\ sets' = Install(r.snap, r.sets).sets
         /\ data' = Len(snaps')
         /\ last_date' = Some(today)
         /\ last_update_success' = TRUE
         /\ last_exception' = "none"
    ELSE /\ last_update_success' = FALSE
         /\ last_exception' = r.raised
         /\ UNCHANGED <<snaps, sets, data, last_date>>

\* the adapter answers: the rest of _async_update_data, then
\* DataUpdateCoordinator stores the result or records the failure
FinishWith(resp, conv, nowDay) ==
    /\ state = "fetching"
    /\ Store(UpdateData(resp, conv, day, nowDay), day)
    /\ adapter_raised' = ~Fetched(config, resp, conv).ok
    /\ day' = nowDay
    /\ state' = "idle"
    /\ fetches' = fetches - 1
    /\ UNCHANGED <<config, coalesced, played_at_start, marked_in_flight, normVars, viewVars>>

FinishRefresh ==
    /\ \E resp \in ResponsesOf(config), conv \in Conversions, nowDay \in {day, day + 1} :
          /\ nowDay <= MaxDay
          /\ FinishWith(resp, conv, nowDay)
    /\ UNCHANGED <<fin, shutdown, flow>>

\* the playback subsystem has played name: it is added, in place, to the
\* played set of the snapshot that is current
MarkPlayed(name) ==
    /\ data # 0
    /\ sets' = [sets EXCEPT ![snaps[data].played_today] = @ \cup {name}]
    /\ marked_in_flight' = IF state = "fetching" THEN marked_in_flight \cup {name}
                           ELSE marked_in_flight
    /\ UNCHANGED <<config, state, data, snaps, last_date, last_update_success,
                   last_exception, day, fetches, coalesced, adapter_raised,
                   played_at_start, normVars, viewVars, fin, shutdown, flow>>

\* midnight passes
Tick ==
    /\ day < MaxDay
    /\ day' = day + 1
    /\ UNCHANGED <<config, state, data, snaps, sets, last_date, last_update_success,
                   last_exception, fetches, coalesced, adapter_raised,
                   played_at_start, marked_in_flight, normVars, viewVars, fin, shutdown, flow>>

Next ==
    \/ PeriodicRefresh
    \/ RefreshCommand
    \/ FinishRefresh
    \/ \E name \in MarkNames : MarkPlayed(name)
    \/ Tick

Spec == Init /\ [][Next]_vars

(***************************************************************************)
(* The normalizer on its own: a table of the portal is drawn, the adapter  *)
(* pairs it into the raw mapping, and _normalize_times is applied.         *)
(***************************************************************************)
HeaderTexts ==
    {<<"F", "a", "j", "e", "r">>, <<"f", "a", "j", "r">>, <<"S", "u", "n", "r", "i", "s", "e">>, <<"Z", "u", "h", "r">>,
     <<"A", "s", "r">>, <<"M", "a", "g", "h", "r", "i", "b">>, <<"I", "s", "h", "a">>, <<"S", "u", "h", "o", "o", "r">>}

CellTexts ==
    {<<"4", ":", "3", "0">>, <<"1", "0", ":", "3", "0">>, <<"7", ":", "5", "0", " ", "(", "+", "0", "3", ")">>,
     <<"0", "0", ":", "2", "0">>, <<"1", "2", "3", "0">>, <<"4", ":", "x">>}

NormConfigs ==
    {[suhoor_enabled |-> FALSE],
     [suhoor_enabled |-> TRUE],
     [suhoor_enabled |-> TRUE, suhoor_ramadan_only |-> FALSE, suhoor_offset_minutes |-> 15,
      prayer_fajr |-> FALSE, prayer_sunrise |-> TRUE],
     [suhoor_enabled |-> TRUE, suhoor_ramadan_only |-> FALSE, suhoor_offset_minutes |-> 120]}

SchedIdle ==
    /\ config \in {[suhoor_enabled |-> TRUE]}
    /\ state = "idle"
    /\ data = 0
    /\ snaps = <<>>
    /\ sets = <<>>
    /\ last_date = None
    /\ last_update_success = TRUE
    /\ last_exception = "none"
    /\ day = 0
    /\ fetches = 0
    /\ coalesced = FALSE
    /\ adapter_raised = FALSE
    /\ played_at_start = {}
    /\ marked_in_flight = {}

InitNorm ==
    /\ SchedIdle
    /\ \E n \in 0..MaxRaw :
          /\ nth \in [1..n -> HeaderTexts]
          /\ ntd \in [1..n -> CellTexts]
    /\ nraw = PairTimes(Headers(nth), Cells(ntd), 1, <<>>)
    /\ nconfig \in NormConfigs
    /\ nramadan \in BOOLEAN
    /\ nout = [done |-> FALSE, ok |-> FALSE, prayers |-> <<>>]
    /\ ViewIdle

NormalizeStep ==
    /\ ~nout.done
    /\ LET r == NormalizeTimes(nraw, nramadan, nconfig, day)
       IN nout' = [done |-> TRUE, ok |-> r.ok, prayers |-> r.prayers]
    /\ UNCHANGED <<schedVars, nth, ntd, nraw, nconfig, nramadan, viewVars, fin, shutdown, flow>>

NextNorm == NormalizeStep

SpecNorm == InitNorm /\ [][NextNorm]_vars

(***************************************************************************)
(* The observers (sensor.py).  A sensor's property resolves the next       *)
(* prayer with one reading of the clock and computes the countdown with a  *)
(* later one.  The clock is in seconds.  dt_util.now() is an aware         *)
(* datetime: a wall reading with the UTC offset of its zone; a prayer time *)
(* is naive and takes the clock's zone before it is compared.              *)
(***************************************************************************)
\* bound: the rows of the portal's table behind the observed snapshot
MaxView == 2

\* a prayer time, as seconds on the clock's scale
Seconds(prayer_time) == prayer_time * 60

\* an aware datetime: wall reading and UTC offset of its zone, in seconds
Aware(wall, utcoffset) == [wall |-> wall, utcoffset |-> utcoffset]

\* the instant of an aware datetime, on the UTC scale
Utc(dt) == dt.wall - dt.utcoffset

\* mutant of Localized: the naive prayer time is taken as UTC
LocalizedUtc(prayer_time, now) == Aware(Seconds(prayer_time), 0)

\* if prayer_time.tzinfo is None: prayer_time.replace(tzinfo=now.tzinfo);
\* the normalizer builds every prayer time naive
Localized(prayer_time, now) == Aware(Seconds(prayer_time), now.utcoffset)

\* a > b of aware datetimes
After(a, b) == Utc(a) > Utc(b)

\* mutant of NextEnabledFrom: a prayer whose time is now is still upcoming
RECURSIVE NextEnabledFromNow(_, _, _)
NextEnabledFromNow(prayers, i, now) ==
    IF i > Len(prayers) THEN None
    ELSE IF ~prayers[i].enabled THEN NextEnabledFromNow(prayers, i + 1, now)
    ELSE IF ~After(now, Localized(prayers[i].time, now)) THEN Some(prayers[i])
    ELSE NextEnabledFromNow(prayers, i + 1, now)

\* NextPrayerSensor._get_next_prayer: the loop, from entry i on
RECURSIVE NextEnabledFrom(_, _, _)
NextEnabledFrom(prayers, i, now) ==
    IF i > Len(prayers) THEN None
    ELSE IF ~prayers[i].enabled THEN NextEnabledFrom(prayers, i + 1, now)
    ELSE IF After(Localized(prayers[i].time, now), now) THEN Some(prayers[i])
    ELSE NextEnabledFrom(prayers, i + 1, now)

\* NextPrayerSensor._get_next_prayer
NextEnabled(d, now) == IF d = None THEN None ELSE NextEnabledFrom(d[1].prayers, 1, now)

\* mutant of NextAnyFrom: the enabled filter of the other sensor is kept
RECURSIVE NextAnyFromEnabled(_, _, _)
NextAnyFromEnabled(prayers, i, now) ==
    IF i > Len(prayers) THEN None
    ELSE IF ~prayers[i].enabled THEN NextAnyFromEnabled(prayers, i + 1, now)
    ELSE IF After(Localized(prayers[i].time, now), now) THEN Some(prayers[i])
    ELSE NextAnyFromEnabled(prayers, i + 1, now)

\* AzanCountdownSensor._get_next_prayer: the loop, from entry i on
RECURSIVE NextAnyFrom(_, _, _)
NextAnyFrom(prayers, i, now) ==
    IF i > Len(prayers) THEN None
    ELSE IF After(Localized(prayers[i].time, now), now) THEN Some(prayers[i])
    ELSE NextAnyFrom(prayers, i + 1, now)

\* AzanCountdownSensor._get_next_prayer
NextAny(d, now) == IF d = None THEN None ELSE NextAnyFrom(d[1].prayers, 1, now)

\* int(a / b) for b > 0: the quotient truncated toward zero
IntQuotient(a, b) == IF a >= 0 THEN a \div b ELSE 0 - ((0 - a) \div b)

\* diff.total_seconds() for diff = prayer_time - now
DiffSeconds(prayer, now) == Utc(Localized(prayer.time, now)) - Utc(now)

\* mutant of CountdownMinutes: the difference is not clamped
CountdownMinutesRaw(prayer, now) == IntQuotient(DiffSeconds(prayer, now), 60)

\* max(0, int(diff.total_seconds() / 60))
CountdownMinutes(prayer, now) == Max(0, IntQuotient(DiffSeconds(prayer, now), 60))

\* max(0, int(diff.total_seconds()))
TotalSeconds(prayer, now) == Max(0, DiffSeconds(prayer, now))

\* AzanCountdownSensor.native_value, for the prayer resolved
NativeCountdown(prayer, now) ==
    IF prayer = None THEN None ELSE Some(CountdownMinutes(prayer[1], now))

\* mutant of Breakdown: the minutes are not reduced by the hours
BreakdownWholeMinutes(prayer, now) ==
    IF prayer = None
    THEN [prayer_name |-> None, total_seconds |-> 0, hours |-> 0, minutes |-> 0, seconds |-> 0]
    ELSE [prayer_name |-> Some(prayer[1].name),
          total_seconds |-> TotalSeconds(prayer[1], now),
          hours |-> TotalSeconds(prayer[1], now) \div 3600,
          minutes |-> TotalSeconds(prayer[1], now) \div 60,
          seconds |-> TotalSeconds(prayer[1], now) % 60]

\* AzanCountdownSensor.extra_state_attributes, for the prayer resolved
Breakdown(prayer, now) ==
    IF prayer = None
    THEN [prayer_name |-> None, total_seconds |-> 0, hours |-> 0, minutes |-> 0, seconds |-> 0]
    ELSE [prayer_name |-> Some(prayer[1].name),
          total_seconds |-> TotalSeconds(prayer[1], now),
          hours |-> TotalSeconds(prayer[1], now) \div 3600,
          minutes |-> (TotalSeconds(prayer[1], now) % 3600) \div 60,
          seconds |-> TotalSeconds(prayer[1], now) % 60]

\* NextPrayerSensor.extra_state_attributes["countdown_minutes"]
NextAttrMinutes(prayer, now) ==
    IF prayer = None THEN None ELSE Some(CountdownMinutes(prayer[1], now))

\* mutant of StatusOf: playing is looked at first
StatusOfPlayingFirst(store) ==
    IF Get(store, "is_playing", FALSE) THEN "playing"
    ELSE IF Get(store, "is_downloading", FALSE) THEN "downloading"
    ELSE "idle"

\* AzanStatusSensor.native_value: store.get(key) of an absent key is falsy
StatusOf(store) ==
    IF Get(store, "is_downloading", FALSE) THEN "downloading"
    ELSE IF Get(store, "is_playing", FALSE) THEN "playing"
    ELSE "idle"

\* the header and cell texts of the tables behind the observed snapshots
ViewHeaders ==
    {<<"F", "a", "j", "r">>, <<"S", "u", "n", "r", "i", "s", "e">>, <<"A", "s", "r">>, <<"I", "s", "h", "a">>}

ViewCells == {<<"4", ":", "3", "0">>, <<"1", "0", ":", "3", "0">>, <<"0", "0", ":", "2", "0">>}

ViewConfigs ==
    {[suhoor_enabled |-> FALSE],
     [suhoor_enabled |-> TRUE, suhoor_ramadan_only |-> FALSE, suhoor_offset_minutes |-> 15,
      prayer_fajr |-> FALSE, prayer_sunrise |-> TRUE]}

\* readings of the clock: midnight, around 04:30:00, 10:30:00, past 16:30, 23:59:00
ViewNows == {0, 16170, 16200, 16230, 37800, 59401, 86340}

\* UTC offsets of the clock's zone: UTC, +03:00, -05:00
ViewZones == {0, 10800, -18000}

\* seconds the clock advances between resolving the prayer and using it
ViewSkews == {0, 45, 90}

\* the store of the playback subsystem: each flag absent, False or True
ViewStores ==
    {[x \in {} |-> TRUE]}
      \cup [{"is_downloading"} -> BOOLEAN]
      \cup [{"is_playing"} -> BOOLEAN]
      \cup [{"is_downloading", "is_playing"} -> BOOLEAN]

\* coordinator.data after the first refresh answered by the portal table
\* (th, td): None when the refresh failed, else the snapshot
ViewData(cfg, th, td) ==
    IF Prepared(cfg, [status |-> "ok", th |-> th, td |-> td], None, 0).raised # "none"
    THEN None
    ELSE Some(PrayerData(Prepared(cfg, [status |-> "ok", th |-> th, td |-> td], None, 0).prayers,
                         0, NoHijri, 1))

InitView ==
    /\ SchedIdle
    /\ nth = <<>>
    /\ ntd = <<>>
    /\ nraw = <<>>
    /\ nconfig = [suhoor_enabled |-> FALSE]
    /\ nramadan = FALSE
    /\ nout = [done |-> FALSE, ok |-> FALSE, prayers |-> <<>>]
    /\ \E n \in 0..MaxView : \E th \in [1..n -> ViewHeaders], td \in [1..n -> ViewCells] :
          \E cfg \in ViewConfigs : vdata = ViewData(cfg, th, td)
    /\ vnow \in ViewNows
    /\ vpc = "start"
    /\ vnext_enabled = None
    /\ vnext_any = None
    /\ vcountdown = None
    /\ vstatus = None
    /\ vtz \in ViewZones
    /\ vramadan = None
    /\ vsensors = None
    /\ fin = [phase |-> "none", resp |-> <<>>, conv |-> None]
    /\ shutdown = "no"
    /\ flow = NoFlow

\* the two _get_next_prayer read the clock and scan the snapshot
Resolve ==
    /\ vpc = "start"
    /\ vnext_enabled' = NextEnabled(vdata, Aware(vnow, vtz))
    /\ vnext_any' = NextAny(vdata, Aware(vnow, vtz))
    /\ vpc' = "resolved"
    /\ UNCHANGED <<schedVars, normVars, vdata, vnow, vcountdown, vstatus, vtz, vramadan, vsensors,
                   fin, shutdown, flow>>

\* the properties read the clock again and compute the countdown
Consume ==
    /\ vpc = "resolved"
    /\ \E skew \in ViewSkews :
          /\ vnow' = vnow + skew
          /\ vcountdown' = Some([native_value |-> NativeCountdown(vnext_any, Aware(vnow + skew, vtz)),
                                 breakdown |-> Breakdown(vnext_any, Aware(vnow + skew, vtz)),
                                 countdown_minutes |->
                                     NextAttrMinutes(vnext_enabled, Aware(vnow + skew, vtz))])
    /\ vpc' = "consumed"
    /\ UNCHANGED <<schedVars, normVars, vdata, vnext_enabled, vnext_any, vstatus,
                   vtz, vramadan, vsensors,
                   fin, shutdown, flow>>

\* AzanStatusSensor.native_value reads the store
ReadStatus ==
    /\ vpc = "start"
    /\ \E store \in ViewStores :
          vstatus' = Some([store |-> store, native_value |-> StatusOf(store)])
    /\ vpc' = "status"
    /\ UNCHANGED <<schedVars, normVars, vdata, vnow, vnext_enabled, vnext_any, vcountdown,
                   vtz, vramadan, vsensors,
                   fin, shutdown, flow>>

NextView == Resolve \/ Consume \/ ReadStatus

SpecView == InitView /\ [][NextView]_vars

(***************************************************************************)
(* The refresh with its upstream answer on record: a refresh is requested  *)
(* on an idle coordinator, the answer of the upstream (and of the Hijri    *)
(* converter) is drawn, and the refresh ends on that answer.               *)
(***************************************************************************)
InitFetch ==
    /\ config \in SchedConfigs
    /\ state = "idle"
    /\ data = 0
    /\ snaps = <<>>
    /\ sets = <<>>
    /\ last_date = None
    /\ last_update_success = TRUE
    /\ last_exception = "none"
    /\ day = 0
    /\ fetches = 0
    /\ coalesced = FALSE
    /\ adapter_raised = FALSE
    /\ played_at_start = {}
    /\ marked_in_flight = {}
    /\ nth = <<>>
    /\ ntd = <<>>
    /\ nraw = <<>>
    /\ nconfig = [suhoor_enabled |-> FALSE]
    /\ nramadan = FALSE
    /\ nout = [done |-> FALSE, ok |-> FALSE, prayers |-> <<>>]
    /\ ViewIdle

\* a refresh starts; the upstream will answer resp, the converter conv
Request ==
    /\ state = "idle"
    /\ Trigger
    /\ \E resp \in ResponsesOf(config), conv \in FetchConversions :
          fin' = [phase |-> "pending", resp |-> resp, conv |-> conv]
    /\ UNCHANGED <<config, data, snaps, sets, last_date, last_update_success,
                   last_exception, day, adapter_raised, normVars, viewVars, shutdown, flow>>

\* mutant of Answer: the awaited call never returns to the coordinator
AnswerHangs ==
    /\ fin.phase = "pending"
    /\ fin' = [fin EXCEPT !.phase = "answered"]
    /\ UNCHANGED <<schedVars, normVars, viewVars, shutdown, flow>>

\* the answer arrives and the refresh ends
Answer ==
    /\ fin.phase = "pending"
    /\ FinishWith(fin.resp, fin.conv, day)
    /\ fin' = [fin EXCEPT !.phase = "answered"]
    /\ UNCHANGED <<shutdown, flow>>

\* self.coordinator.data
CoordinatorData == IF data = 0 THEN None ELSE Some(snaps[data])

\* RamadanSensor.native_value
RamadanValue(d) ==
    IF d = None THEN "Unknown" ELSE IF d[1].is_ramadan THEN "Yes" ELSE "No"

\* if value is not None: attrs[key] = value
SetIfSet(attrs, key, value) ==
    IF value # None THEN DictSet(attrs, key, value[1]) ELSE attrs

\* mutant of RamadanAttrs: the Hijri keys are set whether or not they have a value
RamadanAttrsAll(d) ==
    IF d = None THEN <<>>
    ELSE DictSet(DictSet(DictSet(DictSet(<<>>,
             "hijri_month", d[1].hijri_month),
             "hijri_day", d[1].hijri_day),
             "hijri_month_name", d[1].hijri_month_name),
             "is_ramadan", d[1].is_ramadan)

\* RamadanSensor.extra_state_attributes
RamadanAttrs(d) ==
    IF d = None THEN <<>>
    ELSE DictSet(SetIfSet(SetIfSet(SetIfSet(<<>>,
             "hijri_month", d[1].hijri_month),
             "hijri_day", d[1].hijri_day),
             "hijri_month_name", d[1].hijri_month_name),
             "is_ramadan", d[1].is_ramadan)

\* the Hijri fields of the snapshot the sensor reads
HijriSeen(d) ==
    IF d = None THEN None
    ELSE Some([hijri_month |-> d[1].hijri_month,
               hijri_day |-> d[1].hijri_day,
               hijri_month_name |-> d[1].hijri_month_name,
               is_ramadan |-> d[1].is_ramadan])

\* the state of RamadanSensor is written from the current snapshot
ReadRamadan ==
    /\ vramadan' = Some([seen |-> HijriSeen(CoordinatorData),
                         native_value |-> RamadanValue(CoordinatorData),
                         attrs |-> RamadanAttrs(CoordinatorData)])
    /\ UNCHANGED <<schedVars, normVars, vdata, vnow, vpc, vnext_enabled, vnext_any,
                   vcountdown, vstatus, vtz, vsensors, fin, shutdown, flow>>

\* PrayerTimeSensor._get_prayer and SuhoorTimeSensor._get_suhoor: the loop
RECURSIVE GetPrayerFrom(_, _, _)
GetPrayerFrom(prayers, i, prayer_name) ==
    IF i > Len(prayers) THEN None
    ELSE IF prayers[i].name = prayer_name THEN Some(prayers[i])
    ELSE GetPrayerFrom(prayers, i + 1, prayer_name)

\* PrayerTimeSensor._get_prayer and SuhoorTimeSensor._get_suhoor
GetPrayer(d, prayer_name) ==
    IF d = None THEN None ELSE GetPrayerFrom(d[1].prayers, 1, prayer_name)

\* PrayerTimeSensor.native_value and SuhoorTimeSensor.native_value
PrayerValue(prayer) == IF prayer = None THEN None ELSE Some(prayer[1].time_str)

\* played = False; if self.coordinator.data: played = name in played_today
PlayedFlag(d, prayer_name) ==
    IF d = None THEN FALSE ELSE prayer_name \in sets[d[1].played_today]

\* mutant of PrayerAttrs: the played flag is returned without a prayer too
PrayerAttrsAlways(d, prayer, prayer_name) ==
    IF prayer = None THEN << <<"played", PlayedFlag(d, prayer_name)>> >>
    ELSE << <<"enabled", prayer[1].enabled>>,
            <<"played", PlayedFlag(d, prayer_name)>>,
            <<"prayer_name", prayer_name>> >>

\* PrayerTimeSensor.extra_state_attributes (the datetime key, the ISO text
\* of the time, is left out)
PrayerAttrs(d, prayer, prayer_name) ==
    IF prayer = None THEN <<>>
    ELSE << <<"enabled", prayer[1].enabled>>,
            <<"played", PlayedFlag(d, prayer_name)>>,
            <<"prayer_name", prayer_name>> >>

\* SuhoorTimeSensor.extra_state_attributes (without the datetime key)
SuhoorAttrs(d, prayer) ==
    IF prayer = None THEN <<>>
    ELSE << <<"enabled", prayer[1].enabled>>,
            <<"played", PlayedFlag(d, Suhoor)>> >>

\* NextPrayerSensor.native_value
NextValue(prayer) == IF prayer = None THEN None ELSE Some(prayer[1].name)

\* NextPrayerSensor.extra_state_attributes (without the datetime key)
NextAttrs(prayer, now) ==
    IF prayer = None THEN <<>>
    ELSE << <<"time", prayer[1].time_str>>,
            <<"countdown_minutes", CountdownMinutes(prayer[1], now)>> >>

\* the prayers whose PrayerTimeSensor is read
SensorNames == {Fajr, Sunrise}

\* the state of every sensor, written from the snapshot d with one reading
\* of the clock
SensorStates(d, prayer_name, now) ==
    [has_data |-> d # None,
     prayer_name |-> prayer_name,
     prayer_value |-> PrayerValue(GetPrayer(d, prayer_name)),
     prayer_attrs |-> PrayerAttrs(d, GetPrayer(d, prayer_name), prayer_name),
     suhoor_value |-> PrayerValue(GetPrayer(d, Suhoor)),
     suhoor_attrs |-> SuhoorAttrs(d, GetPrayer(d, Suhoor)),
     next_value |-> NextValue(NextEnabled(d, now)),
     next_attrs |-> NextAttrs(NextEnabled(d, now), now),
     countdown_value |-> NativeCountdown(NextAny(d, now), now),
     countdown_attrs |-> Breakdown(NextAny(d, now), now),
     ramadan_value |-> RamadanValue(d),
     ramadan_attrs |-> RamadanAttrs(d)]

\* the sensors are read
ReadSensors ==
    /\ \E prayer_name \in SensorNames :
          vsensors' = Some(SensorStates(CoordinatorData, prayer_name, Aware(vnow, vtz)))
    /\ UNCHANGED <<schedVars, normVars, vdata, vnow, vpc, vnext_enabled, vnext_any,
                   vcountdown, vstatus, vtz, vramadan, fin, shutdown, flow>>

\* refreshes and readings of the sensors
NextSensors ==
    \/ Request
    \/ Answer
    \/ ReadSensors

SpecSensors == InitFetch /\ [][NextSensors]_vars

NextFetch == Request \/ Answer \/ ReadRamadan

SpecFetch == InitFetch /\ [][NextFetch]_vars

\* the step of Answer as it shows on the record of the upstream answer;
\* Answer is enabled whenever an answer is pending
AnswerArrives == fin.phase = "pending" /\ fin' = [fin EXCEPT !.phase = "answered"]

\* the awaited request ends: session.get without a timeout argument runs
\* under the client's default total timeout, and the event loop resumes
\* the coroutine once the response or the error is there
SpecFetchFair == InitFetch /\ [][Request \/ Answer]_vars /\ WF_fin(AnswerArrives)

(***************************************************************************)
(* Unload of the integration.  The unload handler is not part of the       *)
(* coordinator; it is modelled from the design: the periodic timer and the *)
(* fetch in flight are cancelled, and a fetch that is not cancelled at     *)
(* once completes and its result is discarded.                             *)
(***************************************************************************)
\* unload begins: no fetch is in flight, or the fetch in flight is
\* cancelled at once, or it is left to complete
Unload ==
    /\ shutdown = "no"
    /\ \/ /\ state = "idle"
          /\ shutdown' = "stopped"
          /\ UNCHANGED <<state, fetches>>
       \/ /\ state = "fetching"
          /\ shutdown' = "stopped"
          /\ state' = "idle"
          /\ fetches' = fetches - 1
       \/ /\ state = "fetching"
          /\ shutdown' = "begun"
          /\ UNCHANGED <<state, fetches>>
    /\ UNCHANGED <<config, data, snaps, sets, last_date, last_update_success,
                   last_exception, day, coalesced, adapter_raised,
                   played_at_start, marked_in_flight, normVars, viewVars, fin, flow>>

\* mutant of Discard: the late answer is stored like any other
DiscardStores ==
    /\ shutdown = "begun"
    /\ \E resp \in ResponsesOf(config), conv \in Conversions : FinishWith(resp, conv, day)
    /\ shutdown' = "discarded"
    /\ UNCHANGED <<fin, flow>>

\* the fetch that was in flight when unload began completes: its result is
\* discarded
Discard ==
    /\ shutdown = "begun"
    /\ state = "fetching"
    /\ state' = "idle"
    /\ fetches' = fetches - 1
    /\ shutdown' = "discarded"
    /\ UNCHANGED <<config, data, snaps, sets, last_date, last_update_success,
                   last_exception, day, coalesced, adapter_raised,
                   played_at_start, marked_in_flight, normVars, viewVars, fin, flow>>

\* the timer, the refresh command and the adapter's answer act while the
\* integration is loaded
NextUnload ==
    \/ shutdown = "no" /\ PeriodicRefresh
    \/ shutdown = "no" /\ RefreshCommand
    \/ shutdown = "no" /\ FinishRefresh
    \/ Unload
    \/ Discard

SpecUnload == Init /\ [][NextUnload]_vars

(***************************************************************************)
(* The setup wizard (AzanConfigFlow) and the options wizard                *)
(* (AzanOptionsFlow).  The flow manager calls the first handler with None  *)
(* when a wizard is opened, and afterwards the handler of the form last    *)
(* shown with what the user entered in it.  A handler that accepts its     *)
(* input calls the next handler with None, which shows the next form.      *)
(* flow.data is self._data, flow.type, flow.step_id and flow.errors are    *)
(* the result the handler returned, flow.entry is the data of the entry    *)
(* created; flow.shown (the forms shown so far) and flow.user_input (what  *)
(* the manager passed last) are history.  A text the code inspects is a    *)
(* sequence of characters; None and the empty text are both <<>>, which    *)
(* `not device` does not tell apart either.                                *)
(***************************************************************************)
CONF_OUTPUT_DEVICE == "output_device"
CONF_PRAYER_SOURCE == "prayer_source"

\* str.startswith(prefix)
StartsWith(s, prefix) ==
    /\ Len(s) >= Len(prefix)
    /\ SubSeq(s, 1, Len(prefix)) = prefix

\* dict.update(other)
RECURSIVE Update(_, _)
Update(d, other) ==
    IF other = <<>>
    THEN d
    ELSE Update(DictSet(d, other[1][1], other[1][2]), Tail(other))

\* async_show_form(step_id, errors): the form shown is the wizard's current step
ShowForm(f, step_id, errors) ==
    [f EXCEPT !.type = "form", !.step_id = step_id, !.errors = errors,
              !.shown = @ \cup {step_id}]

\* setup step 5; configured: an entry with the integration's unique id exists
AzanConfigFlow_async_step_suhoor(f, user_input, configured) ==
    IF user_input # None
    THEN IF configured
         THEN [f EXCEPT !.data = Update(@, user_input[1]), !.type = "abort"]
         ELSE [f EXCEPT !.data = Update(@, user_input[1]),
                        !.type = "create_entry",
                        !.entry = Some(Update(f.data, user_input[1]))]
    ELSE ShowForm(f, "suhoor", <<>>)

\* setup step 4
AzanConfigFlow_async_step_schedule(f, user_input) ==
    IF user_input # None
    THEN AzanConfigFlow_async_step_suhoor(
             [f EXCEPT !.data = Update(@, user_input[1])], None, FALSE)
    ELSE ShowForm(f, "schedule", <<>>)

\* setup step 3b
AzanConfigFlow_async_step_location(f, user_input) ==
    IF user_input # None
    THEN AzanConfigFlow_async_step_schedule(
             [f EXCEPT !.data = Update(@, user_input[1])], None)
    ELSE ShowForm(f, "location", <<>>)

\* setup step 3
AzanConfigFlow_async_step_prayer_source(f, user_input) ==
    IF user_input # None
    THEN IF PairsGet(user_input[1], CONF_PRAYER_SOURCE, None) = SOURCE_ALADHAN
         THEN AzanConfigFlow_async_step_location(
                  [f EXCEPT !.data = Update(@, user_input[1])], None)
         ELSE AzanConfigFlow_async_step_schedule(
                  [f EXCEPT !.data = Update(@, user_input[1])], None)
    ELSE ShowForm(f, "prayer_source", <<>>)

\* setup step 2b
AzanConfigFlow_async_step_android_settings(f, user_input) ==
    IF user_input # None
    THEN AzanConfigFlow_async_step_prayer_source(
             [f EXCEPT !.data = Update(@, user_input[1])], None)
    ELSE ShowForm(f, "android_settings", <<>>)

\* setup step 2
AzanConfigFlow_async_step_output_device(f, user_input) ==
    IF user_input = None
    THEN ShowForm(f, "output_device", <<>>)
    ELSE IF PairsGet(user_input[1], CONF_OUTPUT_DEVICE, None) = <<>>
    THEN ShowForm(f, "output_device", <<<<"base", "no_device">>>>)
    ELSE IF StartsWith(PairsGet(user_input[1], CONF_OUTPUT_DEVICE, None),
                       <<"n", "o", "t", "i", "f", "y", ":">>)
    THEN AzanConfigFlow_async_step_android_settings(
             [f EXCEPT !.data = Update(@, user_input[1])], None)
    ELSE AzanConfigFlow_async_step_prayer_source(
             [f EXCEPT !.data = Update(@, user_input[1])], None)

\* setup step 1: audio settings
AzanConfigFlow_async_step_user(f, user_input) ==
    IF user_input # None
    THEN AzanConfigFlow_async_step_output_device(
             [f EXCEPT !.data = Update(@, user_input[1])], None)
    ELSE ShowForm(f, "user", <<>>)

\* options step 5
AzanOptionsFlow_async_step_suhoor(f, user_input) ==
    IF user_input # None
    THEN [f EXCEPT !.data = Update(@, user_input[1]),
                   !.type = "create_entry",
                   !.entry = Some(Update(f.data, user_input[1]))]
    ELSE ShowForm(f, "suhoor", <<>>)

\* options step 4
AzanOptionsFlow_async_step_schedule(f, user_input) ==
    IF user_input # None
    THEN AzanOptionsFlow_async_step_suhoor(
             [f EXCEPT !.data = Update(@, user_input[1])], None)
    ELSE ShowForm(f, "schedule", <<>>)

\* options step 3b
AzanOptionsFlow_async_step_location(f, user_input) ==
    IF user_input # None
    THEN AzanOptionsFlow_async_step_schedule(
             [f EXCEPT !.data = Update(@, user_input[1])], None)
    ELSE ShowForm(f, "location", <<>>)

\* options step 3
AzanOptionsFlow_async_step_prayer_source(f, user_input) ==
    IF user_input # None
    THEN IF PairsGet(user_input[1], CONF_PRAYER_SOURCE, None) = SOURCE_ALADHAN
         THEN AzanOptionsFlow_async_step_location(
                  [f EXCEPT !.data = Update(@, user_input[1])], None)
         ELSE AzanOptionsFlow_async_step_schedule(
                  [f EXCEPT !.data = Update(@, user_input[1])], None)
    ELSE ShowForm(f, "prayer_source", <<>>)

\* options step 2b
AzanOptionsFlow_async_step_android_settings(f, user_input) ==
    IF user_input # None
    THEN AzanOptionsFlow_async_step_prayer_source(
             [f EXCEPT !.data = Update(@, user_input[1])], None)
    ELSE ShowForm(f, "android_settings", <<>>)

\* mutant of AzanOptionsFlow_async_step_output_device: every device goes on
\* to the prayer source
OptionsOutputDeviceNoAndroid(f, user_input) ==
    IF user_input = None
    THEN ShowForm(f, "output_device", <<>>)
    ELSE IF PairsGet(user_input[1], CONF_OUTPUT_DEVICE, None) = <<>>
    THEN ShowForm(f, "output_device", <<<<"base", "no_device">>>>)
    ELSE AzanOptionsFlow_async_step_prayer_source(
             [f EXCEPT !.data = Update(@, user_input[1])], None)

\* options step 2
AzanOptionsFlow_async_step_output_device(f, user_input) ==
    IF user_input = None
    THEN ShowForm(f, "output_device", <<>>)
    ELSE IF PairsGet(user_input[1], CONF_OUTPUT_DEVICE, None) = <<>>
    THEN ShowForm(f, "output_device", <<<<"base", "no_device">>>>)
    ELSE IF StartsWith(PairsGet(user_input[1], CONF_OUTPUT_DEVICE, None),
                       <<"n", "o", "t", "i", "f", "y", ":">>)
    THEN AzanOptionsFlow_async_step_android_settings(
             [f EXCEPT !.data = Update(@, user_input[1])], None)
    ELSE AzanOptionsFlow_async_step_prayer_source(
             [f EXCEPT !.data = Update(@, user_input[1])], None)

\* options step 1: audio settings
AzanOptionsFlow_async_step_init(f, user_input) ==
    IF user_input # None
    THEN AzanOptionsFlow_async_step_output_device(
             [f EXCEPT !.data = Update(@, user_input[1])], None)
    ELSE ShowForm(f, "init", <<>>)

\* a wizard is opened: the handler object is made and its first step is
\* called with None
StartFlow ==
    /\ flow.kind = "none"
    /\ \/ flow' = AzanConfigFlow_async_step_user([NoFlow EXCEPT !.kind = "config"], None)
       \/ flow' = AzanOptionsFlow_async_step_init([NoFlow EXCEPT !.kind = "options"], None)
    /\ UNCHANGED <<schedVars, normVars, viewVars, fin, shutdown>>

\* the user submits the form shown: the manager calls the handler of that
\* step with what the form's schema lets through
Submit ==
    /\ flow.type = "form"
    /\ \E configured \in BOOLEAN :
       \E user_input \in
            (CASE flow.step_id \in {"user", "init"} ->
                      {<<<<"azan_url", url>>>> : url \in {"a", "b"}}
               [] flow.step_id = "output_device" ->
                      {<<<<CONF_OUTPUT_DEVICE, device>>>> :
                           device \in {<<>>,
                                       <<"n", "o", "t", "i", "f", "y", ":", "a">>,
                                       <<"n", "o", "t", "i", "f", "y", ".", "a">>,
                                       <<"m", "e", "d", "i", "a", "_", "p", "l", "a",
                                         "y", "e", "r", ".", "a">>}}
               [] flow.step_id = "android_settings" ->
                      {<<<<"external_url", "x">>>>}
               [] flow.step_id = "prayer_source" ->
                      {<<<<CONF_PRAYER_SOURCE, source>>>> :
                           source \in {SOURCE_QATAR_MOI, SOURCE_ALADHAN}}
               [] flow.step_id = "location" ->
                      {<<<<"city", "c">>>>}
               [] flow.step_id = "schedule" ->
                      {<<<<"offset_minutes", 0>>>>}
               [] flow.step_id = "suhoor" ->
                      {<<<<"suhoor_enabled", enabled>>>> : enabled \in BOOLEAN}) :
          flow' =
            (CASE flow.kind = "config" /\ flow.step_id = "user" ->
                      AzanConfigFlow_async_step_user(
                          [flow EXCEPT !.user_input = Some(user_input)], Some(user_input))
               [] flow.kind = "config" /\ flow.step_id = "output_device" ->
                      AzanConfigFlow_async_step_output_device(
                          [flow EXCEPT !.user_input = Some(user_input)], Some(user_input))
               [] flow.kind = "config" /\ flow.step_id = "android_settings" ->
                      AzanConfigFlow_async_step_android_settings(
                          [flow EXCEPT !.user_input = Some(user_input)], Some(user_input))
               [] flow.kind = "config" /\ flow.step_id = "prayer_source" ->
                      AzanConfigFlow_async_step_prayer_source(
                          [flow EXCEPT !.user_input = Some(user_input)], Some(user_input))
               [] flow.kind = "config" /\ flow.step_id = "location" ->
                      AzanConfigFlow_async_step_location(
                          [flow EXCEPT !.user_input = Some(user_input)], Some(user_input))
               [] flow.kind = "config" /\ flow.step_id = "schedule" ->
                      AzanConfigFlow_async_step_schedule(
                          [flow EXCEPT !.user_input = Some(user_input)], Some(user_input))
               [] flow.kind = "config" /\ flow.step_id = "suhoor" ->
                      AzanConfigFlow_async_step_suhoor(
                          [flow EXCEPT !.user_input = Some(user_input)], Some(user_input),
                          configured)
               [] flow.kind = "options" /\ flow.step_id = "init" ->
                      AzanOptionsFlow_async_step_init(
                          [flow EXCEPT !.user_input = Some(user_input)], Some(user_input))
               [] flow.kind = "options" /\ flow.step_id = "output_device" ->
                      AzanOptionsFlow_async_step_output_device(
                          [flow EXCEPT !.user_input = Some(user_input)], Some(user_input))
               [] flow.kind = "options" /\ flow.step_id = "android_settings" ->
                      AzanOptionsFlow_async_step_android_settings(
                          [flow EXCEPT !.user_input = Some(user_input)], Some(user_input))
               [] flow.kind = "options" /\ flow.step_id = "prayer_source" ->
                      AzanOptionsFlow_async_step_prayer_source(
                          [flow EXCEPT !.user_input = Some(user_input)], Some(user_input))
               [] flow.kind = "options" /\ flow.step_id = "location" ->
                      AzanOptionsFlow_async_step_location(
                          [flow EXCEPT !.user_input = Some(user_input)], Some(user_input))
               [] flow.kind = "options" /\ flow.step_id = "schedule" ->
                      AzanOptionsFlow_async_step_schedule(
                          [flow EXCEPT !.user_input = Some(user_input)], Some(user_input))
               [] flow.kind = "options" /\ flow.step_id = "suhoor" ->
                      AzanOptionsFlow_async_step_suhoor(
                          [flow EXCEPT !.user_input = Some(user_input)], Some(user_input)))
    /\ UNCHANGED <<schedVars, normVars, viewVars, fin, shutdown>>

SpecFlow == Init /\ [][StartFlow \/ Submit]_vars

(***************************************************************************)
(* Properties of the refresh scheduler, checked under Spec.                *)
(***************************************************************************)
\* the step in which a refresh ends
RefreshEnds == state = "fetching" /\ state' = "idle"

\* the step in which a refresh installs a snapshot
RefreshInstalls == RefreshEnds /\ last_exception' = "none"

\* playedToday of the snapshot that is current after the step
PlayedNext == sets'[snaps'[data'].played_today]

\* the last refresh installed a snapshot for the date of the one it superseded
InstalledSameDate ==
    /\ state = "idle"
    /\ last_exception = "none"
    /\ Len(snaps) = 2
    /\ snaps[1].date = snaps[2].date

\* C1: when the adapter call of a refresh raises, the refresh ends as an
\* update failure and the current snapshot, with its entries, date, hijri
\* fields and playedToday, is the one from before the refresh.
C1_FailureKeepsSnapshot ==
    [][(RefreshEnds /\ adapter_raised')
         => /\ last_exception' = "UpdateFailed"
            /\ ~last_update_success'
            /\ data' = data
            /\ snaps' = snaps
            /\ sets' = sets
            /\ last_date' = last_date]_vars

\* a refresh failed and left a snapshot with a recorded name in place
C1_Witness ==
    /\ state = "idle"
    /\ adapter_raised
    /\ last_exception = "UpdateFailed"
    /\ data # 0
    /\ Played(data) # {}

\* C2: a refresh that installs a snapshot for the date of the previous one
\* keeps every name that was in playedToday before it.
C2_SameDateKeepsPlayed ==
    [][(RefreshInstalls /\ data # 0 /\ snaps[data].date = snaps'[data'].date)
         => Played(data) \subseteq PlayedNext]_vars

\* names recorded before the fetch started are in the snapshot installed for the same date
C2_Witness ==
    /\ InstalledSameDate
    /\ played_at_start # {}
    /\ played_at_start \subseteq Played(data)

\* C3: a refresh that installs a snapshot for another date than the previous
\* one's, or the first snapshot, installs it with an empty playedToday.
C3_NewDateResetsPlayed ==
    [][(RefreshInstalls /\ (data = 0 \/ snaps[data].date # snaps'[data'].date))
         => PlayedNext = {}]_vars

\* the superseded snapshot had names recorded, the one for the new date has none
C3_Witness ==
    /\ state = "idle"
    /\ last_exception = "none"
    /\ Len(snaps) = 2
    /\ snaps[1].date # snaps[2].date
    /\ Played(1) # {}
    /\ Played(2) = {}

\* C4: a name marked played while the fetch was in flight is in playedToday
\* of the snapshot the refresh installs, when that is for the same date.
C4_NoLostMark ==
    [][(RefreshInstalls /\ data # 0 /\ snaps[data].date = snaps'[data'].date)
         => marked_in_flight \subseteq PlayedNext]_vars

\* a name first recorded during the fetch is in the installed snapshot
C4_Witness ==
    /\ InstalledSameDate
    /\ marked_in_flight \ played_at_start # {}
    /\ marked_in_flight \subseteq Played(data)

\* C5: at most one adapter call is in flight; a trigger that arrives while
\* fetching starts none and leaves nothing to run when the fetch ends.
C5_OneFetchInFlight ==
    [][/\ fetches' <= 1
       /\ (state = "fetching" /\ state' = "fetching") => fetches' = fetches
       /\ RefreshEnds => fetches' = 0]_vars

\* a trigger arrived during a fetch, and the fetch has ended
C5_Witness == state = "idle" /\ coalesced /\ fetches = 0 /\ data # 0

\* C6: the current snapshot changes only when a refresh installs its
\* replacement, all fields at once, and on an unchanged date no step makes
\* it lose a recorded name.
C6_AtomicReplacement ==
    [][/\ (data # 0 /\ data' # 0 /\ snaps[data].date = snaps'[data'].date)
             => Played(data) \subseteq PlayedNext
       /\ ~RefreshInstalls => (data' = data /\ snaps' = snaps)]_vars

\* a replacement with other entries for the same date carries the recorded names
C6_Witness ==
    /\ InstalledSameDate
    /\ snaps[1].prayers # snaps[2].prayers
    /\ Played(1) # {}
    /\ Played(2) = Played(1)

\* C7: no step changes a superseded snapshot, the contents of its
\* playedToday included.
C7_SupersededImmutable ==
    [][(Len(snaps) = 2 /\ snaps' = snaps)
         => sets'[snaps[1].played_today] = sets[snaps[1].played_today]]_vars

(***************************************************************************)
(* Properties of the normalizer, checked under SpecNorm.                   *)
(***************************************************************************)
\* hour and minute of a raw time text, as the normalizer reads them
RawParts(v) == Split(TimeClean(v), ":")

WellFormed(v) ==
    /\ Len(RawParts(v)) >= 2
    /\ ParseInt(RawParts(v)[1]) # None
    /\ ParseInt(RawParts(v)[2]) # None
    /\ ParseInt(RawParts(v)[1])[1] \in 0..23
    /\ ParseInt(RawParts(v)[2])[1] \in 0..59

RawHour(v) == ParseInt(RawParts(v)[1])[1]

RawMinute(v) == ParseInt(RawParts(v)[2])[1]

\* the raw entries with a canonical name, in canonical order
Canonical(raw) == SelectSeq(Sorted(raw), LAMBDA x : InSeq(x[1], PRAYER_ORDER))

\* the raw values are readings, on a 12-hour or a 24-hour clock, of times
\* of one day that ascend in canonical order
ValidRaw(raw) ==
    LET c == Canonical(raw)
    IN /\ \A i \in 1..Len(c) : WellFormed(c[i][2])
       /\ \E pm \in [1..Len(c) -> BOOLEAN] :
             /\ \A i \in 1..Len(c) : pm[i] => RawHour(c[i][2]) < 12
             /\ \A i \in 1..(Len(c) - 1) :
                   (IF pm[i] THEN 720 ELSE 0) + RawHour(c[i][2]) * 60 + RawMinute(c[i][2])
                     < (IF pm[i + 1] THEN 720 ELSE 0)
                         + RawHour(c[i + 1][2]) * 60 + RawMinute(c[i + 1][2])

\* C8: for valid raw inputs the entries are in ascending order of time.
C8_SortedByTime ==
    (nout.done /\ nout.ok /\ ValidRaw(nraw))
      => \A i \in 1..(Len(nout.prayers) - 1) :
            nout.prayers[i].time <= nout.prayers[i + 1].time

\* C9: no two entries of the output have the same name, also when two
\* headers of the portal's table map to one canonical name.
C9_UniqueNames ==
    (nout.done /\ nout.ok)
      => \A i, j \in 1..Len(nout.prayers) :
            i # j => nout.prayers[i].name # nout.prayers[j].name

\* two spellings of Fajr were in the table and the output has its Fajr entry
C9_Witness ==
    /\ nout.done
    /\ nout.ok
    /\ \E i, j \in 1..Len(nth) :
          i # j /\ nth[i] # nth[j] /\ HeaderKey(nth[i]) = Fajr /\ HeaderKey(nth[j]) = Fajr
    /\ \E i \in 1..Len(nout.prayers) : nout.prayers[i].name = Fajr

\* C10: the hour of an Asr, Maghrib or Isha entry is the parsed hour plus
\* 12 when the parsed hour is below 10; every other hour is the parsed one.
C10_HourRule ==
    (nout.done /\ nout.ok)
      => \A i \in 1..Len(nout.prayers) :
            LET e == nout.prayers[i]
                h == RawHour(PairsGet(nraw, e.name, <<>>))
            IN e.name # Suhoor
                 => (e.time % 1440) \div 60
                      = IF e.name \in {Asr, Maghrib, Isha} /\ h < 10 THEN h + 12 ELSE h

\* an afternoon entry read as 10 stays 10 and one read as 4 becomes 16
C10_Witness ==
    /\ nout.done
    /\ nout.ok
    /\ \E i, j \in 1..Len(nout.prayers) :
          /\ nout.prayers[i].name \in {Asr, Maghrib, Isha}
          /\ RawHour(PairsGet(nraw, nout.prayers[i].name, <<>>)) = 10
          /\ nout.prayers[i].time = 10 * 60 + 30
          /\ nout.prayers[j].name \in {Asr, Maghrib, Isha}
          /\ RawHour(PairsGet(nraw, nout.prayers[j].name, <<>>)) = 4
          /\ nout.prayers[j].time = 16 * 60 + 30

\* the positions of the entries named name in the output
Positions(name) == {i \in 1..Len(nout.prayers) : nout.prayers[i].name = name}

\* C11: the output has a Suhoor entry exactly when Suhoor is enabled, and
\* ramadan-only is off or it is Ramadan, and the output has a Fajr entry.
C11_SuhoorIff ==
    (nout.done /\ nout.ok)
      => ((Positions(Suhoor) # {})
            <=> /\ Get(nconfig, "suhoor_enabled", FALSE)
                /\ (~Get(nconfig, "suhoor_ramadan_only", TRUE) \/ nramadan)
                /\ Positions(Fajr) # {})

\* Suhoor is produced outside Ramadan because ramadan-only is off
C11_Witness ==
    /\ nout.done
    /\ nout.ok
    /\ ~nramadan
    /\ "suhoor_ramadan_only" \in DOMAIN nconfig
    /\ Positions(Suhoor) # {}

\* C12: the time of a Suhoor entry is the time of the Fajr entry minus the
\* configured offset (60 by default) and is strictly earlier than it, also
\* when the subtraction crosses midnight.
C12_SuhoorTime ==
    (nout.done /\ nout.ok)
      => \A i \in Positions(Suhoor) : \A j \in Positions(Fajr) :
            /\ nout.prayers[i].time
                 = nout.prayers[j].time
                     - Get(nconfig, "suhoor_offset_minutes", DEFAULT_SUHOOR_OFFSET)
            /\ nout.prayers[i].time < nout.prayers[j].time

\* Fajr at 00:20 and an offset of 120 minutes: Suhoor is on the day before
C12_Witness ==
    /\ nout.done
    /\ nout.ok
    /\ Get(nconfig, "suhoor_offset_minutes", DEFAULT_SUHOOR_OFFSET) = 120
    /\ \E i \in Positions(Suhoor) : \E j \in Positions(Fajr) :
          /\ nout.prayers[j].time = 20
          /\ nout.prayers[i].time = 0 - 100

\* C13: a Suhoor entry is enabled whatever the toggles say and stands at
\* the index right before the Fajr entry.
C13_SuhoorPlacement ==
    (nout.done /\ nout.ok)
      => \A i \in Positions(Suhoor) :
            /\ nout.prayers[i].enabled = TRUE
            /\ i + 1 \in Positions(Fajr)

\* Fajr is toggled off, Suhoor is enabled and right before it, another entry follows
C13_Witness ==
    /\ nout.done
    /\ nout.ok
    /\ Len(nout.prayers) = 3
    /\ \E i \in Positions(Suhoor) :
          /\ nout.prayers[i].enabled
          /\ i + 1 \in Positions(Fajr)
          /\ ~nout.prayers[i + 1].enabled

\* C14: a raw entry whose time text does not decode into two integers is
\* dropped and the others are normalized: the normalization ends without
\* an error and has an entry for every canonical name whose text decodes.
C14_BadEntryDropped ==
    nout.done
      => /\ nout.ok
         /\ \A k \in 1..Len(nraw) :
               InSeq(nraw[k][1], PRAYER_ORDER)
                 => ((Positions(nraw[k][1]) # {}) <=> WellFormed(nraw[k][2]))

(***************************************************************************)
(* Properties of the observers, checked under SpecView.                    *)
(***************************************************************************)
\* the entries of the observed snapshot
Entries == IF vdata = None THEN <<>> ELSE vdata[1].prayers

\* entry i is later than the clock's reading at resolution
Later(i) == Seconds(Entries[i].time) > vnow

\* the index of a resolved entry (names are unique within a snapshot)
IndexIn(e) == CHOOSE i \in 1..Len(Entries) : Entries[i] = e

\* C15: nextEnabled is the first entry, in entries order, with time > now
\* and enabled = true; it is none exactly when there is no such entry; an
\* entry whose time is now is not returned.
C15_NextEnabled ==
    vpc = "resolved"
      => /\ (vnext_enabled = None)
               <=> ~\E i \in 1..Len(Entries) : Later(i) /\ Entries[i].enabled
         /\ vnext_enabled # None
               => \E i \in 1..Len(Entries) :
                     /\ Entries[i] = vnext_enabled[1]
                     /\ Later(i)
                     /\ Entries[i].enabled
                     /\ \A j \in 1..(i - 1) : ~(Later(j) /\ Entries[j].enabled)

\* an enabled entry is due exactly now and a later one is returned
C15_Witness ==
    /\ vpc = "resolved"
    /\ \E i \in 1..Len(Entries) : Entries[i].enabled /\ Seconds(Entries[i].time) = vnow
    /\ vnext_enabled # None
    /\ Seconds(vnext_enabled[1].time) > vnow

\* C16: nextAny is the first entry, in entries order, with time > now,
\* enabled or not; it is none exactly when every entry has time <= now;
\* when nextEnabled returns an entry, nextAny returns it or an earlier one.
C16_NextAny ==
    vpc = "resolved"
      => /\ (vnext_any = None) <=> \A i \in 1..Len(Entries) : ~Later(i)
         /\ vnext_any # None
               => \E i \in 1..Len(Entries) :
                     /\ Entries[i] = vnext_any[1]
                     /\ Later(i)
                     /\ \A j \in 1..(i - 1) : ~Later(j)
         /\ vnext_enabled # None
               => /\ vnext_any # None
                  /\ IndexIn(vnext_any[1]) <= IndexIn(vnext_enabled[1])

\* nextAny is a disabled entry and nextEnabled is a later one; or none is enabled
C16_Witness ==
    /\ vpc = "resolved"
    /\ vnext_any # None
    /\ ~vnext_any[1].enabled
    /\ vnext_enabled # None
    /\ IndexIn(vnext_any[1]) < IndexIn(vnext_enabled[1])

\* C17: the countdown in minutes and in total seconds is never negative,
\* and is 0 when the entry's time is not later than the clock's reading at
\* the computation, which may be later than the one that resolved the entry.
C17_CountdownNonNegative ==
    vpc = "consumed"
      => /\ vcountdown[1].native_value # None
               => /\ vcountdown[1].native_value[1] >= 0
                  /\ Seconds(vnext_any[1].time) <= vnow
                        => vcountdown[1].native_value[1] = 0
         /\ vcountdown[1].countdown_minutes # None
               => /\ vcountdown[1].countdown_minutes[1] >= 0
                  /\ Seconds(vnext_enabled[1].time) <= vnow
                        => vcountdown[1].countdown_minutes[1] = 0
         /\ vcountdown[1].breakdown.total_seconds >= 0
         /\ vcountdown[1].breakdown.hours >= 0
         /\ vcountdown[1].breakdown.minutes >= 0
         /\ vcountdown[1].breakdown.seconds >= 0
         /\ (vnext_any # None /\ Seconds(vnext_any[1].time) <= vnow)
               => vcountdown[1].breakdown.total_seconds = 0

\* the clock is a minute past the resolved entry's time and the countdown is 0
C17_Witness ==
    /\ vpc = "consumed"
    /\ vnext_any # None
    /\ vnow - Seconds(vnext_any[1].time) >= 60
    /\ vcountdown[1].native_value = Some(0)
    /\ vcountdown[1].breakdown.total_seconds = 0

\* a flag of the store read: absent counts as false
Flag(key) == key \in DOMAIN vstatus[1].store /\ vstatus[1].store[key]

\* C18: the status is downloading whenever isDownloading is true, playing
\* when only isPlaying is true, idle when both are false or absent.
C18_StatusPrecedence ==
    vpc = "status"
      => /\ Flag("is_downloading") => vstatus[1].native_value = "downloading"
         /\ (Flag("is_playing") /\ ~Flag("is_downloading"))
               => vstatus[1].native_value = "playing"
         /\ (~Flag("is_playing") /\ ~Flag("is_downloading"))
               => vstatus[1].native_value = "idle"

\* both flags are true and the status is downloading
C18_Witness ==
    /\ vpc = "status"
    /\ Flag("is_downloading")
    /\ Flag("is_playing")
    /\ vstatus[1].native_value = "downloading"

(***************************************************************************)
(* Properties of the adapters and the refresh, checked under SpecFetch.    *)
(***************************************************************************)
\* the answer on record is from the portal
FromPortal == SourceOf(config) = SOURCE_QATAR_MOI

\* the raw times the answer on record carries, when it carries them
AnswerTimes ==
    IF FromPortal THEN FetchQatarMoi(fin.resp).times
    ELSE [i \in 1..Len(PRAYER_ORDER) |->
             <<PRAYER_ORDER[i], PairsGet(fin.resp.timings, PRAYER_ORDER[i], <<>>)>>]

\* the answer on record carries prayer times, and they normalize
TimesUsable ==
    /\ fin.resp.status = "ok"
    /\ IF FromPortal THEN FetchQatarMoi(fin.resp).ok
       ELSE \A i \in 1..Len(PRAYER_ORDER) : HasKey(fin.resp.timings, PRAYER_ORDER[i])
    /\ NormalizeTimes(AnswerTimes, FALSE, config, day).ok

\* the Hijri date of the answer on record cannot be obtained or parsed:
\* the converter is unavailable or throws; a hijri key of the API is
\* missing or is no integer
HijriUnavailable ==
    IF FromPortal THEN fin.conv = None
    ELSE \/ fin.resp.hijri.number = None
         \/ fin.resp.hijri.day = None
         \/ fin.resp.hijri.en = None
         \/ ParseInt(fin.resp.hijri.number[1]) = None
         \/ ParseInt(fin.resp.hijri.day[1]) = None

\* C19: when the Hijri date cannot be obtained or parsed, the refresh still
\* installs a snapshot with the fetched entries, with hijri_month,
\* hijri_day and hijri_month_name unset and is_ramadan false.
C19_HijriFailureUnset ==
    (fin.phase = "answered" /\ TimesUsable /\ HijriUnavailable)
      => /\ last_exception = "none"
         /\ data # 0
         /\ snaps[data].prayers = NormalizeTimes(AnswerTimes, FALSE, config, day).prayers
         /\ snaps[data].hijri_month = None
         /\ snaps[data].hijri_day = None
         /\ snaps[data].hijri_month_name = None
         /\ ~snaps[data].is_ramadan

\* the adapter has to fail on the answer on record: no 2xx status, or no
\* header/cell pair in the portal's table, or a timings key missing
MustFail ==
    \/ fin.resp.status # "ok"
    \/ FromPortal /\ (Headers(fin.resp.th) = <<>> \/ fin.resp.td = <<>>)
    \/ ~FromPortal /\ \E i \in 1..Len(PRAYER_ORDER) : ~HasKey(fin.resp.timings, PRAYER_ORDER[i])

\* C20: when the answer is one the adapter has to fail on, the refresh ends
\* as a failed update and the snapshot stays the one from before.
C20_AdapterFailure ==
    [][(fin.phase = "pending" /\ fin'.phase = "answered" /\ MustFail)
         => /\ last_exception' = "UpdateFailed"
            /\ ~last_update_success'
            /\ data' = data
            /\ snaps' = snaps
            /\ sets' = sets]_vars

\* a table without cells ended a refresh as a failure; the snapshot was kept
C20_Witness ==
    /\ fin.phase = "answered"
    /\ fin.resp.status = "ok"
    /\ MustFail
    /\ last_exception = "UpdateFailed"
    /\ data # 0


(***************************************************************************)
(* Claims about the names, the order and the toggles of the normalizer's   *)
(* output, under SpecNorm.                                                 *)
(***************************************************************************)
RawNames == {nraw[i][1] : i \in 1..Len(nraw)}

CanonicalNames == {PRAYER_ORDER[i] : i \in 1..Len(PRAYER_ORDER)}

\* C22: every entry of the normalizer's output bears one of the six canonical
\* names or is the injected Suhoor (Suhoor is enabled in the configuration
\* and the entry stands right before Fajr); a raw name outside the six, a
\* raw "Suhoor" included, leaves no entry of its own.
C22_CanonicalNames ==
    (nout.done /\ nout.ok) =>
        \A i \in 1..Len(nout.prayers) :
            \/ nout.prayers[i].name \in CanonicalNames
            \/ /\ nout.prayers[i].name = Suhoor
               /\ Get(nconfig, "suhoor_enabled", FALSE)
               /\ i < Len(nout.prayers)
               /\ nout.prayers[i + 1].name = Fajr

\* a raw mapping with the key Suhoor and a canonical key: only the canonical
\* one is in the output
C22_Witness ==
    /\ nout.done /\ nout.ok
    /\ Suhoor \in RawNames
    /\ Len(nraw) = 2
    /\ Len(nout.prayers) = 1
    /\ nout.prayers[1].name \in CanonicalNames

\* the non-Suhoor entries of the output, in output order
Canonicals == SelectSeq(nout.prayers, LAMBDA e : e.name # Suhoor)

\* C23: whatever the order of the raw mapping, the non-Suhoor entries of the
\* output stand in canonical order: of two of them the earlier one has the
\* smaller index in PRAYER_ORDER.
C23_CanonicalOrder ==
    (nout.done /\ nout.ok) =>
        \A i, j \in 1..Len(Canonicals) :
            i < j => IndexOf(Canonicals[i].name, PRAYER_ORDER)
                       < IndexOf(Canonicals[j].name, PRAYER_ORDER)

\* a raw mapping that lists a later prayer first, both kept
C23_Witness ==
    /\ nout.done /\ nout.ok
    /\ Len(nraw) = 2
    /\ nraw[1][1] \in CanonicalNames /\ nraw[2][1] \in CanonicalNames
    /\ IndexOf(nraw[1][1], PRAYER_ORDER) > IndexOf(nraw[2][1], PRAYER_ORDER)
    /\ Len(Canonicals) = 2
    /\ Canonicals[1].name = nraw[2][1]

\* the configuration key of a canonical name's toggle (const.py lines 28-33)
ToggleKey(name) ==
    CASE name = Fajr -> "prayer_fajr"
      [] name = Sunrise -> "prayer_sunrise"
      [] name = Dhuhr -> "prayer_dhuhr"
      [] name = Asr -> "prayer_asr"
      [] name = Maghrib -> "prayer_maghrib"
      [] name = Isha -> "prayer_isha"

\* C24: the enabled flag of a canonical entry is the configured toggle of
\* its name; without a configured toggle Sunrise is disabled and the five
\* prayers are enabled.
C24_EnabledToggle ==
    (nout.done /\ nout.ok) =>
        \A i \in 1..Len(Canonicals) :
            IF ToggleKey(Canonicals[i].name) \in DOMAIN nconfig
            THEN Canonicals[i].enabled = nconfig[ToggleKey(Canonicals[i].name)]
            ELSE Canonicals[i].enabled = (Canonicals[i].name # Sunrise)

\* no toggle configured: Sunrise comes out disabled next to an enabled prayer
C24_Witness ==
    /\ nout.done /\ nout.ok
    /\ "prayer_sunrise" \notin DOMAIN nconfig
    /\ Len(Canonicals) = 2
    /\ Canonicals[1].name = Sunrise /\ ~Canonicals[1].enabled
    /\ Canonicals[2].name # Sunrise /\ Canonicals[2].enabled

\* toggles configured: Fajr comes out disabled and Sunrise enabled
C24_Configured ==
    /\ nout.done /\ nout.ok
    /\ "prayer_fajr" \in DOMAIN nconfig
    /\ Len(Canonicals) = 2
    /\ Canonicals[1].name = Fajr /\ ~Canonicals[1].enabled
    /\ Canonicals[2].name = Sunrise /\ Canonicals[2].enabled


(***************************************************************************)
(* Claims about the snapshots a refresh installs, under SpecFetch.         *)
(***************************************************************************)
\* the snapshot has an entry of this name
HasEntry(snap, name) == \E i \in 1..Len(snap.prayers) : snap.prayers[i].name = name

\* the recorded answer was installed as the current snapshot
AnswerInstalled == fin.phase = "answered" /\ last_exception = "none" /\ data # 0

\* C25: in every snapshot is_ramadan is true exactly when hijri_month is 9
\* (false when it is unset); and the is_ramadan that decided the Suhoor
\* injection of a refresh is the one of the snapshot it installs: with
\* Suhoor enabled for Ramadan only and a Fajr entry, the snapshot has a
\* Suhoor entry exactly when its is_ramadan is true.
C25_RamadanFlag ==
    /\ \A i \in 1..Len(snaps) :
          snaps[i].is_ramadan <=> (snaps[i].hijri_month = Some(9))
    /\ (/\ AnswerInstalled
        /\ Get(config, "suhoor_enabled", FALSE)
        /\ Get(config, "suhoor_ramadan_only", TRUE)
        /\ HasEntry(snaps[data], Fajr))
         => (HasEntry(snaps[data], Suhoor) <=> snaps[data].is_ramadan)

\* a snapshot of the month after Ramadan: the flag is false and Suhoor,
\* enabled for Ramadan only, was not injected
C25_Witness ==
    /\ AnswerInstalled
    /\ snaps[data].hijri_month = Some(10)
    /\ ~snaps[data].is_ramadan
    /\ Get(config, "suhoor_enabled", FALSE)
    /\ Get(config, "suhoor_ramadan_only", TRUE)
    /\ HasEntry(snaps[data], Fajr)
    /\ ~HasEntry(snaps[data], Suhoor)


\* C28: every snapshot a refresh installed has at least one entry, also
\* when no header of the portal's table is a canonical name.
C28_NonEmptySnapshot ==
    AnswerInstalled => Len(snaps[data].prayers) >= 1

(***************************************************************************)
(* The date of a snapshot and the dates of its entries, under Spec.        *)
(***************************************************************************)
\* the calendar day of a time
DateOf(time) == time \div 1440

\* C30: in every snapshot a refresh installed, the date is the calendar day
\* of the time of every entry other than Suhoor.
C30_DateMatchesEntries ==
    \A i \in 1..Len(snaps) :
        \A k \in 1..Len(snaps[i].prayers) :
            snaps[i].prayers[k].name # Suhoor
              => DateOf(snaps[i].prayers[k].time) = snaps[i].date


(***************************************************************************)
(* The zone of the clock and the order of the entries, under SpecView.     *)
(***************************************************************************)
\* the reading of the clock the observers take
Now == Aware(vnow, vtz)

\* C27: whatever the zone of now, a prayer time stored without a zone is
\* read in the zone of now: it compares as later than now exactly when its
\* wall time is later than the wall reading of now, its distance from now
\* is the distance of the wall readings, and the resolved entries and the
\* countdown are the ones of the wall readings.
C27_ZoneAware ==
    /\ \A i \in 1..Len(Entries) :
          /\ After(Localized(Entries[i].time, Now), Now) <=> Later(i)
          /\ DiffSeconds(Entries[i], Now) = Seconds(Entries[i].time) - vnow
    /\ vpc = "resolved"
          => /\ vnext_any # None
                   => /\ Seconds(vnext_any[1].time) > vnow
                      /\ \A j \in 1..(IndexIn(vnext_any[1]) - 1) : ~Later(j)
             /\ vnext_enabled # None => Seconds(vnext_enabled[1].time) > vnow
    /\ (vpc = "consumed" /\ vnext_any # None)
          => vcountdown[1].breakdown.total_seconds
               = Max(0, Seconds(vnext_any[1].time) - vnow)

\* the zone of now is not UTC, and the resolved entry is later than now on
\* the wall but not when its time is taken as UTC
C27_Witness ==
    /\ vpc = "resolved"
    /\ vtz # 0
    /\ vnext_any # None
    /\ Seconds(vnext_any[1].time) > vnow
    /\ ~(Seconds(vnext_any[1].time) > vnow - vtz)

\* C29: the entry nextEnabled returns is the earliest upcoming enabled
\* event: no other enabled entry has a time strictly between now and the
\* returned entry's time; and none is returned only if no enabled entry has
\* a time later than now.
C29_EarliestUpcoming ==
    vpc = "resolved"
      => /\ vnext_enabled = None
               => ~\E i \in 1..Len(Entries) : Entries[i].enabled /\ Later(i)
         /\ vnext_enabled # None
               => ~\E i \in 1..Len(Entries) :
                      /\ Entries[i].enabled
                      /\ Later(i)
                      /\ Entries[i].time < vnext_enabled[1].time


(***************************************************************************)
(* The Ramadan observer, under SpecFetch.                                  *)
(***************************************************************************)
\* the snapshot the Ramadan observer read has no Hijri field set
SeenUnset ==
    /\ vramadan # None
    /\ vramadan[1].seen # None
    /\ vramadan[1].seen[1].hijri_month = None
    /\ vramadan[1].seen[1].hijri_day = None
    /\ vramadan[1].seen[1].hijri_month_name = None

\* C26: on a snapshot whose Hijri fields are unset the Ramadan observer
\* returns "No", and its attributes have none of the keys hijri_month,
\* hijri_day, hijri_month_name and have is_ramadan with the value false.
C26_RamadanObserver ==
    SeenUnset
      => /\ vramadan[1].native_value = "No"
         /\ ~HasKey(vramadan[1].attrs, "hijri_month")
         /\ ~HasKey(vramadan[1].attrs, "hijri_day")
         /\ ~HasKey(vramadan[1].attrs, "hijri_month_name")
         /\ HasKey(vramadan[1].attrs, "is_ramadan")
         /\ PairsGet(vramadan[1].attrs, "is_ramadan", TRUE) = FALSE
         /\ Len(vramadan[1].attrs) = 1

\* the observer read a snapshot installed without a Hijri date
C26_Witness ==
    /\ SeenUnset
    /\ AnswerInstalled
    /\ vramadan[1].native_value = "No"
    /\ Len(vramadan[1].attrs) = 1

\* the observer read a snapshot of Ramadan: Yes, with the Hijri attributes
C26_Ramadan ==
    /\ vramadan # None
    /\ vramadan[1].native_value = "Yes"
    /\ HasKey(vramadan[1].attrs, "hijri_month")
    /\ HasKey(vramadan[1].attrs, "hijri_day")
    /\ HasKey(vramadan[1].attrs, "hijri_month_name")


(***************************************************************************)
(* Unload, under SpecUnload.                                               *)
(***************************************************************************)
\* C21: once unload has begun the current snapshot is never replaced, the
\* result of a fetch that was in flight is discarded, and no refresh starts.
C21_ShutdownDiscards ==
    [][shutdown # "no"
         => /\ data' = data
            /\ snaps' = snaps
            /\ last_date' = last_date
            /\ fetches' <= fetches
            /\ state' = "fetching" => state = "fetching"
            /\ shutdown' # "no"]_vars

\* unload began during a fetch, the fetch completed, and the snapshot from
\* before is the current one
C21_Witness ==
    /\ shutdown = "discarded"
    /\ state = "idle"
    /\ data # 0
    /\ fetches = 0


(***************************************************************************)
(* The countdown breakdown, under SpecView.                                *)
(***************************************************************************)
\* C31: with total = max(0, whole seconds from now to the next entry), the
\* breakdown satisfies hours*3600 + minutes*60 + seconds = total with
\* 0 <= minutes < 60 and 0 <= seconds < 60, and the countdown in minutes,
\* computed from the same now, is total divided by 60, rounded down.
C31_BreakdownConsistent ==
    (vpc = "consumed" /\ vnext_any # None)
      => /\ vcountdown[1].breakdown.total_seconds
              = Max(0, Seconds(vnext_any[1].time) - vnow)
         /\ vcountdown[1].breakdown.hours * 3600
              + vcountdown[1].breakdown.minutes * 60
              + vcountdown[1].breakdown.seconds
              = vcountdown[1].breakdown.total_seconds
         /\ vcountdown[1].breakdown.minutes \in 0..59
         /\ vcountdown[1].breakdown.seconds \in 0..59
         /\ vcountdown[1].breakdown.hours >= 0
         /\ vcountdown[1].native_value
              = Some(vcountdown[1].breakdown.total_seconds \div 60)

\* a countdown of more than an hour with minutes and seconds left over
C31_Witness ==
    /\ vpc = "consumed"
    /\ vnext_any # None
    /\ vcountdown[1].breakdown.hours > 0
    /\ vcountdown[1].breakdown.minutes > 0
    /\ vcountdown[1].breakdown.seconds > 0


(***************************************************************************)
(* Termination of a refresh, under SpecFetchFair.                          *)
(***************************************************************************)
\* the refresh that ends in this step installs a new snapshot
EndsInstalled ==
    /\ last_exception' = "none"
    /\ last_update_success'
    /\ data' # 0
    /\ snaps'[data'].date = day

\* the refresh that ends in this step fails and the snapshot stays
EndsFailed ==
    /\ last_exception' # "none"
    /\ ~last_update_success'
    /\ data' = data
    /\ snaps' = snaps
    /\ sets' = sets

\* C32: every refresh eventually ends: fetching leads to idle with no fetch
\* in flight, so that the next trigger starts a fetch; and the step that
\* ends it either installs a new snapshot or fails and keeps the previous
\* one.
C32_RefreshTerminates ==
    /\ (state = "fetching") ~> (state = "idle" /\ fetches = 0)
    /\ [][RefreshEnds => (EndsInstalled \/ EndsFailed)]_vars

\* a first refresh installed a snapshot, a second one ended on an HTTP
\* error and kept it, and the coordinator is idle again
C32_Witness ==
    /\ fin.phase = "answered"
    /\ fin.resp.status = "http_error"
    /\ state = "idle"
    /\ fetches = 0
    /\ ~last_update_success
    /\ data # 0


(***************************************************************************)
(* The sensors while no snapshot exists, under SpecSensors.                *)
(***************************************************************************)
\* the sensors were read while the coordinator had no snapshot
ReadWithoutData == vsensors # None /\ ~vsensors[1].has_data

\* C33: read while no snapshot exists, the per-prayer, Suhoor, next-prayer
\* and countdown sensors return no value, the Ramadan sensor returns
\* "Unknown", every attribute set is empty, the countdown breakdown names no
\* prayer and is all zeros, and no attribute reports played.
C33_NoSnapshotNoFailure ==
    ReadWithoutData
      => /\ vsensors[1].prayer_value = None
         /\ vsensors[1].prayer_attrs = <<>>
         /\ vsensors[1].suhoor_value = None
         /\ vsensors[1].suhoor_attrs = <<>>
         /\ vsensors[1].next_value = None
         /\ vsensors[1].next_attrs = <<>>
         /\ vsensors[1].countdown_value = None
         /\ vsensors[1].countdown_attrs.prayer_name = None
         /\ vsensors[1].countdown_attrs.hours = 0
         /\ vsensors[1].countdown_attrs.minutes = 0
         /\ vsensors[1].countdown_attrs.seconds = 0
         /\ vsensors[1].ramadan_value = "Unknown"
         /\ vsensors[1].ramadan_attrs = <<>>
         /\ ~HasKey(vsensors[1].prayer_attrs, "played")
         /\ ~HasKey(vsensors[1].suhoor_attrs, "played")

\* the only refresh so far failed, and the sensors were read after it
C33_Witness ==
    /\ ReadWithoutData
    /\ fin.phase = "answered"
    /\ ~last_update_success
    /\ data = 0
    /\ vsensors[1].ramadan_value = "Unknown"

\* read on a snapshot, the sensors return values and attributes
C33_WithData ==
    /\ vsensors # None
    /\ vsensors[1].has_data
    /\ vsensors[1].prayer_value # None
    /\ HasKey(vsensors[1].prayer_attrs, "played")
    /\ vsensors[1].suhoor_value # None
    /\ vsensors[1].next_value # None
    /\ vsensors[1].countdown_value # None
    /\ vsensors[1].ramadan_value = "Yes"

(***************************************************************************)
(* Properties of the wizards, checked under SpecFlow.                      *)
(***************************************************************************)
\* the device names a notify service
IsNotify(device) == StartsWith(device, <<"n", "o", "t", "i", "f", "y", ":">>)

\* the step in which the user submits the form of the step
Submits(step_id) == flow.type = "form" /\ flow.step_id = step_id /\ flow' # flow

\* what the user entered under the key in the step
Entered(key) == PairsGet(flow'.user_input[1], key, <<>>)

\* the step ends with the form of the step shown without an error
Shows(step_id) ==
    /\ flow'.type = "form"
    /\ flow'.step_id = step_id
    /\ flow'.errors = <<>>
    /\ step_id \in flow'.shown

\* the step ends on the output-device form with the error no_device and
\* nothing collected
StaysWithNoDevice ==
    /\ flow'.type = "form"
    /\ flow'.step_id = "output_device"
    /\ flow'.errors = <<<<"base", "no_device">>>>
    /\ flow'.data = flow.data
    /\ flow'.shown = flow.shown

\* C34: in the setup wizard and in the options wizard alike a wizard opens
\* on the audio settings; submitting the audio settings shows the output
\* device; submitting an empty output device stays on the output-device
\* step with the error no_device, a device that starts with notify: shows
\* the android settings and any other device shows the prayer source; the
\* android settings are followed by the prayer source; the source aladhan
\* shows the location and any other source the schedule; the location is
\* followed by the schedule and the schedule by suhoor; an entry is created
\* only by submitting the suhoor step, and in a wizard that created its
\* entry the android settings were shown if and only if the device of the
\* entry starts with notify: and the location if and only if its source is
\* aladhan.
C34_WizardOrder ==
    /\ [][/\ flow.kind = "none" /\ flow' # flow
             => \/ flow'.kind = "config" /\ Shows("user")
                \/ flow'.kind = "options" /\ Shows("init")
          /\ Submits("user") \/ Submits("init") => Shows("output_device")
          /\ Submits("output_device")
             => IF Entered(CONF_OUTPUT_DEVICE) = <<>>
                THEN StaysWithNoDevice
                ELSE IF IsNotify(Entered(CONF_OUTPUT_DEVICE))
                THEN Shows("android_settings")
                ELSE Shows("prayer_source")
          /\ Submits("android_settings") => Shows("prayer_source")
          /\ Submits("prayer_source")
             => IF Entered(CONF_PRAYER_SOURCE) = SOURCE_ALADHAN
                THEN Shows("location")
                ELSE Shows("schedule")
          /\ Submits("location") => Shows("schedule")
          /\ Submits("schedule") => Shows("suhoor")
          /\ Submits("suhoor") => flow'.type \in {"create_entry", "abort"}
          /\ flow'.type = "create_entry" /\ flow.type # "create_entry"
             => flow.type = "form" /\ flow.step_id = "suhoor"
          /\ flow'.kind = flow.kind \/ flow.kind = "none"]_vars
    /\ [](flow.type = "create_entry"
          => /\ flow.entry = Some(flow.data)
             /\ {"output_device", "prayer_source", "schedule", "suhoor"} \subseteq flow.shown
             /\ "android_settings" \in flow.shown
                <=> IsNotify(PairsGet(flow.entry[1], CONF_OUTPUT_DEVICE, <<>>))
             /\ "location" \in flow.shown
                <=> PairsGet(flow.entry[1], CONF_PRAYER_SOURCE, "") = SOURCE_ALADHAN)

\* the options wizard created its entry after the android settings and the
\* location
C34_Witness ==
    /\ flow.kind = "options"
    /\ flow.type = "create_entry"
    /\ "android_settings" \in flow.shown
    /\ "location" \in flow.shown

\* the setup wizard shows the output-device form with the error
C34_NoDevice ==
    /\ flow.kind = "config"
    /\ flow.type = "form"
    /\ flow.step_id = "output_device"
    /\ flow.errors = <<<<"base", "no_device">>>>

\* the setup wizard created its entry without the android settings and
\* without the location
C34_Plain ==
    /\ flow.kind = "config"
    /\ flow.type = "create_entry"
    /\ "android_settings" \notin flow.shown
    /\ "location" \notin flow.shown

====
